---- MODULE Spec2Model ----
(***************************************************************************)
(* Registration and coordinate-mapping core of mfaCTpy:                    *)
(*   - AllenCCFOntology.get_region_info / get_region_hierarchy             *)
(*   - FiberTracker.transform_point_to_ccf / get_region_at_point and the   *)
(*     click / next-fiber session around them                              *)
(*   - LandmarkRegistration.landmark_registration / compute_landmark_error *)
(* Physical coordinates are exact integers (index times an integer         *)
(* spacing); vectors are triples <<x, y, z>> in physical space and         *)
(* <<z, y, x>> in voxel-index space, as in the source.                     *)
(***************************************************************************)
EXTENDS Integers, Sequences, FiniteSets, TLC

\* Python's None where the field otherwise holds an integer (a region id or
\* a parent id); no region id of the model equals it.
None == -1000

\* Python's None where the field otherwise holds a coordinate triple.
NoCoords == <<>>

\* The well-known root id tested by the ancestry walk.
ROOT_ID == 997

\* Default value of get_region_hierarchy's max_depth parameter.
DEFAULT_MAX_DEPTH == 10

-----------------------------------------------------------------------------
(* Bounds of the model *)

\* Region ids 1..MaxId, with the root id, are the ids an ontology of the
\* model may index.
MaxId == 2

\* Ids MaxId+1..MaxId+MaxUnseen occur in volumes and as parent links but
\* are in no id index (unseen ids).
MaxUnseen == 1

-----------------------------------------------------------------------------
VARIABLES
    id_to_info,      \* AllenCCFOntology.id_to_info: id -> record
    h_pc,            \* get_region_hierarchy: "idle", "loop" or "done"
    region_id,       \* get_region_hierarchy: the argument region_id
    max_depth,       \* get_region_hierarchy: the argument max_depth
    current_id,      \* get_region_hierarchy: local current_id
    depth,           \* get_region_hierarchy: local depth
    hierarchy,       \* get_region_hierarchy: local hierarchy (the result)
    use_registered,  \* FiberTracker.use_registered
    transform_path,  \* whether FiberTracker.__init__ was given a transform_path
    transform,       \* FiberTracker.transform (NoTransform for None)
    ccf_annotation,  \* FiberTracker.ccf_annotation (NoAnnotation for None)
    spacing,         \* FiberTracker.spacing, the one spacing the tracker holds
    ref_spacing,     \* voxel spacing of the reference (annotation) grid
    call,            \* the tracker function called last, "none" before any
    args,            \* its arguments <<z, y, x>>
    raised,          \* whether that call ended in an exception
    ret_point,       \* what transform_point_to_ccf returned
    ret_region,      \* what get_region_at_point returned
    ann_reads,       \* the voxels of ccf_annotation that call read
    point_physical,  \* transform_point_to_ccf: local point_physical
    ccf_physical,    \* transform_point_to_ccf: local ccf_physical
    moving_landmarks,   \* landmark_registration: argument, voxels (z, y, x)
    fixed_landmarks,    \* landmark_registration: argument, voxels (z, y, x)
    moving_spacing,     \* landmark_registration: argument (sx, sy, sz)
    fixed_spacing,      \* landmark_registration: argument (sx, sy, sz)
    transform_type,     \* landmark_registration: argument
    reg_pc,             \* landmark_registration: "idle", "ready", "raised", "done"
    error,              \* the exception landmark_registration raised, or "none"
    moving_points,      \* landmark_registration: local moving_points (flat)
    fixed_points,       \* landmark_registration: local fixed_points (flat)
    landmark_transform, \* landmark_registration: local landmark_transform
    errors,             \* squares of the entries of metrics['errors']
    resampled,          \* whether the resampler has been executed
    current_slice,      \* FiberTracker.current_slice
    current_fiber,      \* FiberTracker.current_fiber: a dict with the keys
                        \* top, bottom and, once looked up, region_info
    fibers,             \* FiberTracker.fibers, the saved fibers
    image,              \* MidlineAligner.image: shape, dtype and voxels
    midline_points,     \* MidlineAligner.midline_points: (view, slice) -> clicks
    current_view,       \* MidlineAligner.current_view
    view_slice,         \* MidlineAligner.current_slice
    points_file,        \* what save_midline_points wrote last
    align_pc,           \* "idle", "marking", "fitted", "raised", "aligned"
    plane_params,       \* what fit_midline_plane returned
    reverse,            \* apply_alignment: argument reverse
    rotation_angle,     \* apply_alignment: local rotation_angle
    align_transform,    \* apply_alignment: the transform given to the resampler
    aligned,            \* what apply_alignment returned
    image_array,        \* resample_image: argument image_array
    original_spacing,   \* resample_image: argument original_spacing
    target_spacing,     \* resample_image: argument target_spacing
    interpolation,      \* resample_image: argument interpolation
    resampled_array,    \* what resample_image returned
    prep_pc,            \* resample_image: "idle" or "done"
    sel_moving_landmarks, \* LandmarkSelector.moving_landmarks
    sel_fixed_landmarks,  \* LandmarkSelector.fixed_landmarks
    landmark_names,     \* LandmarkSelector.landmark_names
    sel_view,           \* LandmarkSelector.view
    moving_slice,       \* LandmarkSelector.moving_slice
    fixed_slice,        \* LandmarkSelector.fixed_slice
    landmarks_file,     \* what save_landmarks wrote last
    sel_pc,             \* "idle", "selecting", "returned", "saved", "loaded"
    moving_plots,       \* LandmarkSelector.moving_plots: the labels drawn
    fixed_plots,        \* LandmarkSelector.fixed_plots: the labels drawn
    acronym_to_id,      \* AllenCCFOntology.acronym_to_id
    name_to_id,         \* AllenCCFOntology.name_to_id
    onto_data,          \* parse_ontology: argument data
    onto_pc,            \* parse_ontology: "idle" or "parsed"
    progress_file,      \* output_dir / fiber_tracking_progress.json
    final_file,         \* output_dir / fiber_data.json
    track_pc,           \* FiberTracker: "none", "fresh" (started with no
                        \* fiber), "continued" (started with the fibers of
                        \* a file) or "finished"
    av_image,           \* AxisVerifier.image
    corrected_image,    \* AxisVerifier.corrected_image
    slices,             \* verify_and_correct_axes: local slices
    displayed,          \* what update_display read during the last handler
    av_pc,              \* verify_and_correct_axes: "idle", "shown", "done"
    initial_transform,  \* refine_registration: argument initial_transform
    iterations,         \* refine_registration: argument iterations
    level,              \* the pyramid level the optimizer is at, 1 to 3
    level_iterations,   \* optimizer iterations done at this level
    iteration_count,    \* refine_registration: local iteration_count[0]
    stop_condition,     \* why the optimizer stopped at the last level run
    shrink_factors,     \* the shrink factors of the levels run so far
    refine_ret,         \* what refine_registration returned
    refine_pc           \* "idle", "optimizing", "executed", "done"

ontoVars == <<id_to_info>>
hierVars == <<h_pc, region_id, max_depth, current_id, depth, hierarchy>>
cfgVars == <<use_registered, transform_path, transform, ccf_annotation, spacing,
            ref_spacing>>
callVars == <<call, args, raised, ret_point, ret_region, ann_reads,
              point_physical, ccf_physical>>
regVars == <<moving_landmarks, fixed_landmarks, moving_spacing, fixed_spacing,
             transform_type, reg_pc, error, moving_points, fixed_points,
             landmark_transform, errors, resampled>>
trackVars == <<current_slice, current_fiber, fibers>>
alignVars == <<image, midline_points, current_view, view_slice, points_file,
              align_pc, plane_params, reverse, rotation_angle, align_transform,
              aligned>>
prepVars == <<image_array, original_spacing, target_spacing, interpolation,
             resampled_array, prep_pc>>
selVars == <<sel_moving_landmarks, sel_fixed_landmarks, landmark_names, sel_view,
            moving_slice, fixed_slice, landmarks_file, sel_pc, moving_plots,
            fixed_plots>>
parseVars == <<acronym_to_id, name_to_id, onto_data, onto_pc>>
fileVars == <<progress_file, final_file, track_pc>>
axisVars == <<av_image, corrected_image, slices, displayed, av_pc>>
refineVars == <<initial_transform, iterations, level, level_iterations,
               iteration_count, stop_condition, shrink_factors, refine_ret,
               refine_pc>>
vars == <<ontoVars, hierVars, cfgVars, callVars, regVars, trackVars, alignVars,
          prepVars, selVars, parseVars, fileVars, axisVars, refineVars>>

-----------------------------------------------------------------------------
(* AllenCCFOntology *)

\* Ids that an ontology of the model may index.
IndexIds == (1..MaxId) \cup {ROOT_ID}

\* Values a parent_structure_id may take: none, background, an indexable id,
\* an id that no ontology of the model indexes, the root.
ParentVals == {None, 0} \cup (1..(MaxId + MaxUnseen)) \cup {ROOT_ID}

\* The name parse_ontology stores for a node: the node's own name.
RegionName(id) == IF id = ROOT_ID THEN "root" ELSE "R" \o ToString(id)

RegionAcronym(id) == IF id = ROOT_ID THEN "root" ELSE "r" \o ToString(id)

\* The record parse_ontology stores in id_to_info for a node.
InfoRecord(id, parent) ==
    [id |-> id, name |-> RegionName(id), acronym |-> RegionAcronym(id),
     parent_id |-> parent, color_hex |-> "AABBCC", depth |-> 0]

\* Every id index over IndexIds: any subset of the ids, any parent links
\* (cycles, self-parents and parents that are not indexed included).
Ontologies ==
    UNION { { [i \in S |-> InfoRecord(i, pm[i])] : pm \in [S -> ParentVals] }
            : S \in SUBSET IndexIds }

\* An id missing from the index is answered with the background record.
get_region_info_UnknownAsBackground(index, rid) ==
    IF rid = 0 \/ rid \notin DOMAIN index
    THEN [id |-> 0, name |-> "Outside Brain", acronym |-> "OUT",
          parent_id |-> None, color_hex |-> "000000"]
    ELSE index[rid]

get_region_info(index, rid) ==
    IF rid = 0
    THEN [id |-> 0, name |-> "Outside Brain", acronym |-> "OUT",
          parent_id |-> None, color_hex |-> "000000"]
    ELSE IF rid \in DOMAIN index
         THEN index[rid]
         ELSE [id |-> rid, name |-> "Unknown_Region_" \o ToString(rid),
               acronym |-> "UNK" \o ToString(rid),
               parent_id |-> None, color_hex |-> "FFFFFF"]

\* Off by one: the depth bound admits one pass too many.
HierGuard_OffByOne(w) == w.current_id # None /\ w.depth <= w.max_depth

\* The loop condition of get_region_hierarchy.
HierGuard(w) == w.current_id # None /\ w.depth < w.max_depth

\* The break tests the id just visited instead of the next one, so the
\* root's name is appended before the walk stops.
HierBody_BreakAfterRoot(index, w) ==
    LET info == get_region_info(index, w.current_id)
        next == info.parent_id
    IN [current_id |-> next,
        depth      |-> w.depth + 1,
        max_depth  |-> w.max_depth,
        hierarchy  |-> Append(w.hierarchy, info.name),
        brk        |-> (w.current_id = ROOT_ID)]

\* One pass through the loop body of get_region_hierarchy; brk tells that
\* the pass ended in the break.
HierBody(index, w) ==
    LET info == get_region_info(index, w.current_id)
        next == info.parent_id
    IN [current_id |-> next,
        depth      |-> w.depth + 1,
        max_depth  |-> w.max_depth,
        hierarchy  |-> Append(w.hierarchy, info.name),
        brk        |-> (next = ROOT_ID)]

RECURSIVE HierLoop(_, _)
HierLoop(index, w) ==
    IF w.brk \/ ~HierGuard(w)
    THEN w.hierarchy
    ELSE HierLoop(index, HierBody(index, w))

\* get_region_hierarchy as a function: the list it returns.
get_region_hierarchy(index, rid, maxd) ==
    HierLoop(index, [current_id |-> rid, depth |-> 0, max_depth |-> maxd,
                     hierarchy |-> <<>>, brk |-> FALSE])

\* No call of get_region_hierarchy is in progress.
HierIdle ==
    /\ h_pc = "idle"
    /\ region_id = None
    /\ max_depth = 0
    /\ current_id = None
    /\ depth = 0
    /\ hierarchy = <<>>

\* landmark_registration has not been called.
NoRegistration ==
    /\ moving_landmarks = <<>>
    /\ fixed_landmarks = <<>>
    /\ moving_spacing = <<1, 1, 1>>
    /\ fixed_spacing = <<1, 1, 1>>
    /\ transform_type = "none"
    /\ reg_pc = "idle"
    /\ error = "none"
    /\ moving_points = <<>>
    /\ fixed_points = <<>>
    /\ landmark_transform = [loaded |-> FALSE]
    /\ errors = <<>>
    /\ resampled = FALSE

\* No tracking session: the state FiberTracker.__init__ leaves.
NoSession ==
    /\ current_slice = 0
    /\ current_fiber = [top |-> <<>>, bottom |-> <<>>]
    /\ fibers = <<>>

\* No volume, no marked point, no fit.
NoVolume == [shape |-> <<0, 0, 0>>, dtype |-> "none", data |-> <<>>]

NoFit == [fitted |-> FALSE]

\* apply_alignment has built no transform.
NoRotation == [built |-> FALSE]

\* No MidlineAligner has been constructed.
NoAligner ==
    /\ image = NoVolume
    /\ midline_points = <<>>
    /\ current_view = "none"
    /\ view_slice = 0
    /\ points_file = <<>>
    /\ align_pc = "idle"
    /\ plane_params = NoFit
    /\ reverse = FALSE
    /\ rotation_angle = 0
    /\ align_transform = NoRotation
    /\ aligned = NoVolume

\* A spacing argument: one number for all axes, or a tuple (z, y, x).
NoSpacing == [scalar |-> TRUE, v |-> 1]

\* resample_image has not been called.
NoResample ==
    /\ image_array = NoVolume
    /\ original_spacing = NoSpacing
    /\ target_spacing = NoSpacing
    /\ interpolation = "none"
    /\ resampled_array = NoVolume
    /\ prep_pc = "idle"

\* An empty landmarks file.
NoFile == [written |-> FALSE]

\* No LandmarkSelector has been constructed.
NoSelector ==
    /\ sel_moving_landmarks = <<>>
    /\ sel_fixed_landmarks = <<>>
    /\ landmark_names = <<>>
    /\ sel_view = "none"
    /\ moving_slice = 0
    /\ fixed_slice = 0
    /\ landmarks_file = NoFile
    /\ sel_pc = "idle"
    /\ moving_plots = <<>>
    /\ fixed_plots = <<>>

\* parse_ontology has not been called: the indices __init__ creates.
NoParse ==
    /\ acronym_to_id = <<>>
    /\ name_to_id = <<>>
    /\ onto_data = <<>>
    /\ onto_pc = "idle"

\* No file of an earlier tracking session.
NoFiberFiles ==
    /\ progress_file = NoFile
    /\ final_file = NoFile
    /\ track_pc = "none"

\* No AxisVerifier has been constructed.
NoVerifier ==
    /\ av_image = NoVolume
    /\ corrected_image = NoVolume
    /\ slices = <<>>
    /\ displayed = <<>>
    /\ av_pc = "idle"

\* refine_registration has not been called.
NoRefinement ==
    /\ initial_transform = "none"
    /\ iterations = 0
    /\ level = 0
    /\ level_iterations = 0
    /\ iteration_count = 0
    /\ stop_condition = "none"
    /\ shrink_factors = <<>>
    /\ refine_ret = <<>>
    /\ refine_pc = "idle"

-----------------------------------------------------------------------------
(* Vectors and transforms (SimpleITK transforms restricted to integer maps) *)

\* self.transform is None.
NoTransform == [loaded |-> FALSE]

Identity3 == << <<1, 0, 0>>, <<0, 1, 0>>, <<0, 0, 1>> >>

\* Quarter turn about the physical z axis: (x, y, z) -> (-y, x, z).
RotZ90 == << <<0, -1, 0>>, <<1, 0, 0>>, <<0, 0, 1>> >>

\* Quarter turn about the physical x axis: (x, y, z) -> (x, -z, y).
RotX90 == << <<1, 0, 0>>, <<0, 0, -1>>, <<0, 1, 0>> >>

\* Uniform scale by two (a similarity that is not rigid).
Scale2 == << <<2, 0, 0>>, <<0, 2, 0>>, <<0, 0, 2>> >>

MatVec(A, p) ==
    [i \in 1..3 |-> A[i][1] * p[1] + A[i][2] * p[2] + A[i][3] * p[3]]

VecAdd(p, q) == [i \in 1..3 |-> p[i] + q[i]]

Abs(n) == IF n < 0 THEN -n ELSE n

\* A loaded transform p |-> A p + t; fails marks a transform object whose
\* TransformPoint raises.
MkTransform(A, t, fails) ==
    [loaded |-> TRUE, A |-> A, t |-> t, fails |-> fails]

\* A value returned, or an exception raised, by a call.
Ret(v) == [exc |-> FALSE, ret |-> v]

Raise == [exc |-> TRUE]

\* sitk.Transform.TransformPoint: the forward mapping of the transform.
TransformPoint(T, p) ==
    IF T.fails THEN Raise ELSE Ret(VecAdd(MatVec(T.A, p), T.t))

\* int(round(p / s)) for an exact quotient p / s with s > 0: Python 3 rounds
\* to the nearest integer, halves to the even neighbour.
PyRoundDiv(p, s) ==
    LET q == p \div s
        r == p % s
    IN IF 2 * r < s THEN q
       ELSE IF 2 * r > s THEN q + 1
       ELSE IF q % 2 = 0 THEN q ELSE q + 1

-----------------------------------------------------------------------------
(* FiberTracker: point mapping and region lookup *)

\* self.ccf_annotation is None.
NoAnnotation == [loaded |-> FALSE]

\* A voxel value that is no integer: int() of it raises ValueError.
NaN == -2000

\* fiber_tracker.py:380, voxel (z, y, x) to physical (x, y, z).
TrackerIndexToPhysical(z, y, x, sp) == <<x * sp, y * sp, z * sp>>

\* fiber_tracker.py:390-396, physical (x, y, z) back to voxel (z, y, x).
TrackerPhysicalToIndex(p, sp) ==
    LET x_ccf == PyRoundDiv(p[1], sp)
        y_ccf == PyRoundDiv(p[2], sp)
        z_ccf == PyRoundDiv(p[3], sp)
    IN <<z_ccf, y_ccf, x_ccf>>

\* The try block of transform_point_to_ccf.
TransformTry(T, sp, z, y, x) ==
    LET phys == TrackerIndexToPhysical(z, y, x, sp)
        mapped == TransformPoint(T, phys)
    IN IF mapped.exc
       THEN Raise
       ELSE Ret(TrackerPhysicalToIndex(mapped.ret, sp))

\* The try block without its except clause: the exception escapes.
transform_point_to_ccf_NoExcept(ur, T, sp, z, y, x) ==
    IF ur THEN Ret(<<z, y, x>>)
    ELSE IF ~T.loaded THEN Ret(<<z, y, x>>)
    ELSE TransformTry(T, sp, z, y, x)

\* Without a transform the call raises instead of returning the input.
transform_point_to_ccf_NoTransformRaises(ur, T, sp, z, y, x) ==
    IF ur THEN Ret(<<z, y, x>>)
    ELSE IF ~T.loaded THEN Raise
    ELSE LET r == TransformTry(T, sp, z, y, x)
         IN IF r.exc THEN Raise ELSE r

\* The registered branch returns the coordinates in (x, y, z) order.
transform_point_to_ccf_RegisteredXYZ(ur, T, sp, z, y, x) ==
    IF ur THEN Ret(<<x, y, z>>)
    ELSE IF ~T.loaded THEN Ret(<<z, y, x>>)
    ELSE LET r == TransformTry(T, sp, z, y, x)
         IN IF r.exc THEN Ret(<<z, y, x>>) ELSE r

transform_point_to_ccf(ur, T, sp, z, y, x) ==
    IF ur THEN Ret(<<z, y, x>>)
    ELSE IF ~T.loaded THEN Ret(<<z, y, x>>)
    ELSE LET r == TransformTry(T, sp, z, y, x)
         IN IF r.exc THEN Ret(<<z, y, x>>) ELSE r

\* Only the upper bounds are tested.
OutOfBounds_UpperOnly(shape, c) ==
    c[1] >= shape[1] \/ c[2] >= shape[2] \/ c[3] >= shape[3]

\* The bounds test of get_region_at_point against ccf_annotation.shape.
OutOfBounds(shape, c) ==
    \/ c[1] < 0 \/ c[1] >= shape[1]
    \/ c[2] < 0 \/ c[2] >= shape[2]
    \/ c[3] < 0 \/ c[3] >= shape[3]

\* A disposition get_region_at_point returns without color_hex.
Disposition(id, name, acronym, hier, coords) ==
    [id |-> id, name |-> name, acronym |-> acronym, hierarchy |-> hier,
     ccf_coords |-> coords]

\* What a call of get_region_at_point yields: the value returned or the
\* exception, and the annotation voxels it read.
Outcome(r, reads) == [exc |-> r.exc, ret |-> IF r.exc THEN <<>> ELSE r.ret,
                      reads |-> reads]

\* numpy's reading of one index on an axis of the given length: a negative
\* index counts from the end, an index outside [-length, length) raises
\* IndexError (reported here as -1).
NumpyAxis(i, length) ==
    IF 0 <= i /\ i < length THEN i
    ELSE IF -length <= i /\ i < 0 THEN i + length
    ELSE -1

\* self.ccf_annotation[z_ccf, y_ccf, x_ccf]
NumpyRead(ann, c) ==
    LET e == [i \in 1..3 |-> NumpyAxis(c[i], ann.shape[i])]
    IN IF \E i \in 1..3 : e[i] = -1 THEN Raise ELSE Ret(ann.data[e])

\* The try block without the early return for region id 0.
RegionTry_NoBackgroundCase(index, ann, c) ==
    LET rd == NumpyRead(ann, c)
        v == IF rd.exc THEN NaN ELSE rd.ret
    IN IF v = NaN
       THEN Raise
       ELSE LET region_info == get_region_info(index, v)
                hier == get_region_hierarchy(index, v, DEFAULT_MAX_DEPTH)
            IN Ret([id |-> v, name |-> region_info.name,
                    acronym |-> region_info.acronym,
                    hierarchy |-> hier,
                    color_hex |-> region_info.color_hex,
                    ccf_coords |-> c])

\* The try block of get_region_at_point, c being the mapped coordinate.
RegionTry(index, ann, c) ==
    LET rd == NumpyRead(ann, c)
        v == IF rd.exc THEN NaN ELSE rd.ret
    IN IF v = NaN
       THEN Raise
       ELSE IF v = 0
            THEN Ret(Disposition(0, "Outside Brain", "OUT", <<>>, c))
            ELSE LET region_info == get_region_info(index, v)
                     hier == get_region_hierarchy(index, v, DEFAULT_MAX_DEPTH)
                 IN Ret([id |-> v, name |-> region_info.name,
                         acronym |-> region_info.acronym,
                         hierarchy |-> hier,
                         color_hex |-> region_info.color_hex,
                         ccf_coords |-> c])

get_region_at_point(index, ur, T, ann, sp, z, y, x) ==
    IF ~ann.loaded
    THEN Outcome(Ret(Disposition(None, "N/A (No CCF annotation loaded)",
                                 "N/A", <<>>, NoCoords)), {})
    ELSE LET m == transform_point_to_ccf(ur, T, sp, z, y, x)
         IN IF m.exc
            THEN Outcome(Raise, {})
            ELSE LET c == m.ret
                 IN IF OutOfBounds(ann.shape, c)
                    THEN Outcome(Ret(Disposition(-1, "Out of Bounds", "OOB",
                                                 <<>>, c)), {})
                    ELSE LET r == RegionTry(index, ann, c)
                         IN IF r.exc
                            THEN Outcome(Ret(Disposition(-1, "Error", "ERR",
                                                         <<>>, c)), {c})
                            ELSE Outcome(r, {c})

-----------------------------------------------------------------------------
(* Tracker configurations and calls *)

Spacings == {1, 2}

Translations == { <<0, 0, 0>>, <<1, 0, 0>>, <<0, -2, 0>>, <<0, 0, 3>> }

\* Transforms a transform file may hold, and one whose application raises.
Transforms ==
    { MkTransform(A, t, FALSE) : A \in {Identity3, RotZ90, Scale2},
                                 t \in Translations }
    \cup { MkTransform(Identity3, <<0, 0, 0>>, TRUE) }

\* Shape (nz, ny, nx) of the annotation volumes of the model.
AnnShape == <<1, 2, 3>>

AnnVoxels == (0..(AnnShape[1] - 1)) \X (0..(AnnShape[2] - 1))
                 \X (0..(AnnShape[3] - 1))

\* Values a voxel of an annotation volume may hold: background, an indexable
\* id, an unseen id, the root id, a value that is no integer.
StoredValues == {0, 1, MaxId + 1, ROOT_ID, NaN}

\* Annotation volumes: one voxel holds any value, the others share a value.
Annotations ==
    { [loaded |-> TRUE, shape |-> AnnShape,
       data |-> [v \in AnnVoxels |-> IF v = hot THEN a ELSE b]]
      : hot \in AnnVoxels, a \in StoredValues, b \in {0, 1} }

\* Voxels the tracker functions are called with: every voxel of the
\* annotation grid and the voxels one step outside it on each axis.
QueryPoints == ((-1)..AnnShape[1]) \X ((-1)..AnnShape[2]) \X ((-1)..AnnShape[3])

\* Id indices the lookups run against: empty; a tree below the root; a
\* parent cycle; an index that holds a record under id 0; a parent link to
\* an unseen id.
LookupOntologies ==
    { [i \in {} |-> InfoRecord(i, None)],
      [i \in {1, 2, ROOT_ID} |->
          InfoRecord(i, IF i = 1 THEN 2 ELSE IF i = 2 THEN ROOT_ID ELSE None)],
      [i \in {1, 2} |-> InfoRecord(i, IF i = 1 THEN 2 ELSE 1)],
      [i \in {0, 1, ROOT_ID} |->
          InfoRecord(i, IF i = 0 THEN ROOT_ID ELSE IF i = 1 THEN 0 ELSE None)],
      [i \in {1, ROOT_ID} |-> InfoRecord(i, MaxId + 1)] }

\* FiberTracker.__init__: the transform is loaded only when a path is given
\* and the image is not the registered one.
TrackerConfig(transforms, annotations) ==
    /\ use_registered \in BOOLEAN
    /\ transform_path \in BOOLEAN
    /\ transform \in IF transform_path /\ ~use_registered
                     THEN {NoTransform} \cup transforms
                     ELSE {NoTransform}
    /\ ccf_annotation \in annotations
    /\ spacing \in Spacings
    /\ ref_spacing \in Spacings

\* No tracker has been constructed.
NoTracker ==
    /\ use_registered = FALSE
    /\ transform_path = FALSE
    /\ transform = NoTransform
    /\ ccf_annotation = NoAnnotation
    /\ spacing = 1
    /\ ref_spacing = 1

NoCall ==
    /\ call = "none"
    /\ args = <<>>
    /\ raised = FALSE
    /\ ret_point = <<>>
    /\ ret_region = <<>>
    /\ ann_reads = {}
    /\ point_physical = <<>>
    /\ ccf_physical = <<>>

\* Whether a call of transform_point_to_ccf enters its try block.
EntersTry == ~use_registered /\ transform.loaded

\* The locals the try block of transform_point_to_ccf sets for (z, y, x).
SetLocals(z, y, x) ==
    /\ point_physical' = IF EntersTry
                         THEN TrackerIndexToPhysical(z, y, x, spacing)
                         ELSE <<>>
    /\ ccf_physical' =
          IF EntersTry
          THEN LET r == TransformPoint(transform,
                            TrackerIndexToPhysical(z, y, x, spacing))
               IN IF r.exc THEN <<>> ELSE r.ret
          ELSE <<>>

\* A call self.transform_point_to_ccf(z, y, x).
CallTransformPoint ==
    /\ call = "none"
    /\ \E q \in QueryPoints :
        LET r == transform_point_to_ccf(use_registered, transform, spacing,
                                        q[1], q[2], q[3])
        IN /\ call' = "transform_point_to_ccf"
           /\ args' = q
           /\ raised' = r.exc
           /\ ret_point' = IF r.exc THEN <<>> ELSE r.ret
           /\ ret_region' = <<>>
           /\ ann_reads' = {}
           /\ SetLocals(q[1], q[2], q[3])
           /\ UNCHANGED <<ontoVars, parseVars, fileVars, axisVars, refineVars, prepVars, selVars, alignVars, hierVars, cfgVars, regVars, trackVars>>

\* A call self.get_region_at_point(z, y, x); ret_point is what its inner
\* call of transform_point_to_ccf returned.
CallGetRegion ==
    /\ call = "none"
    /\ \E q \in QueryPoints :
        LET o == get_region_at_point(id_to_info, use_registered, transform,
                                     ccf_annotation, spacing,
                                     q[1], q[2], q[3])
            m == transform_point_to_ccf(use_registered, transform, spacing,
                                        q[1], q[2], q[3])
            mapped == ccf_annotation.loaded
        IN /\ call' = "get_region_at_point"
           /\ args' = q
           /\ raised' = o.exc
           /\ ret_region' = o.ret
           /\ ann_reads' = o.reads
           /\ ret_point' = IF mapped /\ ~m.exc THEN m.ret ELSE <<>>
           /\ IF mapped
              THEN SetLocals(q[1], q[2], q[3])
              ELSE point_physical' = <<>> /\ ccf_physical' = <<>>
           /\ UNCHANGED <<ontoVars, parseVars, fileVars, axisVars, refineVars, prepVars, selVars, alignVars, hierVars, cfgVars, regVars, trackVars>>

\* The caller has taken the result; the tracker is ready for the next call.
CallReturn ==
    /\ call # "none"
    /\ call' = "none"
    /\ args' = <<>>
    /\ raised' = FALSE
    /\ ret_point' = <<>>
    /\ ret_region' = <<>>
    /\ ann_reads' = {}
    /\ point_physical' = <<>>
    /\ ccf_physical' = <<>>
    /\ UNCHANGED <<ontoVars, parseVars, fileVars, axisVars, refineVars, prepVars, selVars, alignVars, hierVars, cfgVars, regVars, trackVars>>

InitPoint ==
    /\ id_to_info = [i \in {} |-> InfoRecord(i, None)]
    /\ HierIdle
    /\ NoParse
    /\ NoFiberFiles
    /\ NoVerifier
    /\ NoRefinement
    /\ NoResample
    /\ NoSelector
    /\ NoAligner
    /\ TrackerConfig(Transforms, {NoAnnotation})
    /\ NoCall
    /\ NoRegistration
    /\ NoSession

NextPoint == CallTransformPoint \/ CallReturn

\* transform_point_to_ccf called on every configuration of the tracker.
SpecPoint == InitPoint /\ [][NextPoint]_vars

InitLookup ==
    /\ id_to_info \in LookupOntologies
    /\ HierIdle
    /\ NoParse
    /\ NoFiberFiles
    /\ NoVerifier
    /\ NoRefinement
    /\ NoResample
    /\ NoSelector
    /\ NoAligner
    /\ TrackerConfig({ T \in Transforms : T.A # Scale2 },
                     {NoAnnotation} \cup Annotations)
    /\ ref_spacing = spacing
    /\ NoCall
    /\ NoRegistration
    /\ NoSession

NextLookup == CallGetRegion \/ CallReturn

\* get_region_at_point called on every configuration of the tracker.
SpecLookup == InitLookup /\ [][NextLookup]_vars

-----------------------------------------------------------------------------
(* LandmarkRegistration *)

\* Most landmarks a list of the model holds.
MaxLandmarks == 4

\* landmark_registration.py:558-560 and 561-563: a landmark (Z, Y, X) and a
\* spacing (sx, sy, sz) to the physical point (x, y, z).
RegIndexToPhysical_Unpermuted(lm, sp) ==
    <<lm[1] * sp[1], lm[2] * sp[2], lm[3] * sp[3]>>

RegIndexToPhysical(lm, sp) == <<lm[3] * sp[1], lm[2] * sp[2], lm[1] * sp[3]>>

\* landmark_registration.py:487-492: the same conversion as written in
\* compute_landmark_error.
ErrIndexToPhysical(lm, sp) == <<lm[3] * sp[1], lm[2] * sp[2], lm[1] * sp[3]>>

\* zip(moving_landmarks, fixed_landmarks) pairs up to the shorter list.
ZipLen(ms, fs) == IF Len(ms) < Len(fs) THEN Len(ms) ELSE Len(fs)

\* The flat list that points.extend(phys) builds from n landmarks.
FlatPoints(lms, sp, n) ==
    [k \in 1..(3 * n) |->
        RegIndexToPhysical(lms[(k + 2) \div 3], sp)[((k - 1) % 3) + 1]]

\* The i-th point of a flat list (x1, y1, z1, x2, ...).
PointAt(flat, i) == <<flat[3 * i - 2], flat[3 * i - 1], flat[3 * i]>>

\* min_landmarks.get(transform_type, 4)
MinLandmarks(type) == IF type \in {"rigid", "similarity"} THEN 3 ELSE 4

KnownTypes == {"rigid", "similarity", "affine"}

TransformTypes == KnownTypes \cup {"bspline"}

\* Anisotropic scale, a linear map that is no similarity.
Stretch == << <<1, 0, 0>>, <<0, 2, 0>>, <<0, 0, 1>> >>

RigidMatrices == {Identity3, RotZ90, RotX90}

\* Linear parts the transform object of each type can take.
MatricesOf(type) ==
    IF type = "rigid" THEN RigidMatrices
    ELSE IF type = "similarity" THEN RigidMatrices \cup {Scale2}
    ELSE RigidMatrices \cup {Scale2, Stretch}

RegTranslations == { <<0, 0, 0>>, <<2, 0, 0>>, <<1, 2, 0>>, <<0, 2, 2>> }

TransformsOf(type) ==
    { MkTransform(A, t, FALSE) : A \in MatricesOf(type), t \in RegTranslations }

\* sitk.LandmarkBasedTransformInitializer(transform, fixedLandmarks,
\* movingLandmarks): the transforms of the requested type that map every
\* fixed landmark onto its moving landmark.  For landmarks that such a
\* transform relates exactly, the least-squares solution the library
\* computes is one of them (the only one when the landmarks determine it).
LandmarkBasedTransformInitializer(type, fixedFlat, movingFlat) ==
    { T \in TransformsOf(type) :
        \A i \in 1..(Len(fixedFlat) \div 3) :
            TransformPoint(T, PointAt(fixedFlat, i)).ret = PointAt(movingFlat, i) }

\* Square of the Euclidean distance of two points.
SqDist(p, q) ==
    (p[1] - q[1]) * (p[1] - q[1]) + (p[2] - q[2]) * (p[2] - q[2])
        + (p[3] - q[3]) * (p[3] - q[3])

\* compute_landmark_error; each entry is the square of the distance the
\* source takes the root of.
compute_landmark_error(mls, fls, T, msp, fsp) ==
    [i \in 1..ZipLen(mls, fls) |->
        LET m_phys == ErrIndexToPhysical(mls[i], msp)
            f_phys == ErrIndexToPhysical(fls[i], fsp)
            m_transformed == TransformPoint(T, m_phys).ret
        IN SqDist(m_transformed, f_phys)]

\* The i-th landmark picked in the fixed image.
BaseFixed(i) ==
    CASE i = 1 -> <<0, 0, 0>>
      [] i = 2 -> <<0, 0, 2>>
      [] i = 3 -> <<0, 2, 0>>
      [] i = 4 -> <<2, 0, 0>>
      [] OTHER -> <<i, i + 1, 2 * i>>

RegSpacings == { <<1, 1, 1>>, <<2, 2, 2>>, <<1, 2, 1>> }

\* The moving voxel (z, y, x) at the physical point p, when there is one.
VoxelAt(p, sp) == <<p[3] \div sp[3], p[2] \div sp[2], p[1] \div sp[1]>>

OnGrid(p, sp) ==
    \A i \in 1..3 : p[i] >= 0 /\ p[i] % sp[i] = 0

\* The physical point of the moving image that shows what the i-th fixed
\* landmark shows, H being the map from fixed to moving physical space.
MovingPhysical(H, fsp, i) ==
    TransformPoint(H, <<BaseFixed(i)[3] * fsp[1], BaseFixed(i)[2] * fsp[2],
                        BaseFixed(i)[1] * fsp[3]>>).ret

\* The arguments of a call: n_m moving and n_f fixed landmarks that mark the
\* same anatomy in two images related by a transform H of the requested
\* type (of any type when the requested type is unknown).
InitReg ==
    /\ id_to_info = [i \in {} |-> InfoRecord(i, None)]
    /\ HierIdle
    /\ NoParse
    /\ NoFiberFiles
    /\ NoVerifier
    /\ NoRefinement
    /\ NoResample
    /\ NoSelector
    /\ NoAligner
    /\ NoTracker
    /\ NoCall
    /\ transform_type \in TransformTypes
    /\ moving_spacing \in RegSpacings
    /\ fixed_spacing \in RegSpacings
    /\ \E H \in TransformsOf(transform_type),
          n_m \in 2..MaxLandmarks, n_f \in 2..MaxLandmarks :
          /\ \A i \in 1..n_m : OnGrid(MovingPhysical(H, fixed_spacing, i),
                                      moving_spacing)
          /\ moving_landmarks =
                [i \in 1..n_m |-> VoxelAt(MovingPhysical(H, fixed_spacing, i),
                                          moving_spacing)]
          /\ fixed_landmarks = [i \in 1..n_f |-> BaseFixed(i)]
    /\ reg_pc = "ready"
    /\ error = "none"
    /\ moving_points = <<>>
    /\ fixed_points = <<>>
    /\ landmark_transform = [loaded |-> FALSE]
    /\ errors = <<>>
    /\ resampled = FALSE
    /\ NoSession

\* The exception of the landmark-count check: the message is formatted with
\* min_landmarks[transform_type], which is a KeyError for an unknown type.
CountError(type) == IF type \in KnownTypes THEN "ValueError" ELSE "KeyError"

\* The landmark-count check at the head of landmark_registration.
TooFewLandmarks(mls, fls, type) == Len(mls) < MinLandmarks(type)

\* landmark_registration, from the call to the return or the exception.
Register ==
    /\ reg_pc = "ready"
    /\ UNCHANGED <<ontoVars, parseVars, fileVars, axisVars, refineVars, prepVars, selVars, alignVars, hierVars, cfgVars, callVars, trackVars,
                   moving_landmarks, fixed_landmarks, moving_spacing, fixed_spacing,
                   transform_type>>
    /\ IF TooFewLandmarks(moving_landmarks, fixed_landmarks, transform_type)
       THEN /\ reg_pc' = "raised"
            /\ error' = CountError(transform_type)
            /\ UNCHANGED <<moving_points, fixed_points, landmark_transform,
                           errors, resampled>>
       ELSE LET n == ZipLen(moving_landmarks, fixed_landmarks)
                mp == FlatPoints(moving_landmarks, moving_spacing, n)
                fp == FlatPoints(fixed_landmarks, fixed_spacing, n)
            IN /\ moving_points' = mp
               /\ fixed_points' = fp
               /\ IF transform_type \notin KnownTypes
                  THEN /\ reg_pc' = "raised"
                       /\ error' = "ValueError: unknown type"
                       /\ UNCHANGED <<landmark_transform, errors, resampled>>
                  ELSE \E T \in LandmarkBasedTransformInitializer(
                                    transform_type, fp, mp) :
                          /\ landmark_transform' = T
                          /\ errors' = compute_landmark_error(
                                           moving_landmarks, fixed_landmarks,
                                           T, moving_spacing, fixed_spacing)
                          /\ resampled' = TRUE
                          /\ reg_pc' = "done"
                          /\ error' = "none"

IsIsotropic(sp) == sp[1] = sp[2] /\ sp[2] = sp[3]

\* FiberTracker.__init__ on the aligned image with the transform file that
\* the registration wrote; the tracker takes one scalar spacing.
StartTracker ==
    /\ reg_pc = "done"
    /\ transform = NoTransform
    /\ IsIsotropic(moving_spacing)
    /\ IsIsotropic(fixed_spacing)
    /\ use_registered' = FALSE
    /\ transform_path' = TRUE
    /\ transform' = landmark_transform
    /\ ccf_annotation' = NoAnnotation
    /\ spacing' = moving_spacing[1]
    /\ ref_spacing' = fixed_spacing[1]
    /\ UNCHANGED <<ontoVars, parseVars, fileVars, axisVars, refineVars, prepVars, selVars, alignVars, hierVars, callVars, regVars, trackVars>>

\* A call of transform_point_to_ccf on the tracker so started.
TrackPoint == transform # NoTransform /\ CallTransformPoint

TrackReturn == transform # NoTransform /\ CallReturn

NextReg == Register \/ StartTracker \/ TrackPoint \/ TrackReturn

\* Landmark registration, then fiber tracking with the transform it found.
SpecReg == InitReg /\ [][NextReg]_vars

-----------------------------------------------------------------------------
(* FiberTracker: the tracking session *)

\* Most fibers a session of the model saves.
MaxFibers == 2

\* Shape (nz, ny, nx) of the microCT image of the sessions.
ImageShape == <<1, 1, 2>>

\* Annotation volumes of the sessions: row y = 0 holds an indexable id, a
\* value that is no integer and the background; or an unseen id, the root
\* id and a second indexable id.
SessionAnnotations ==
    { [loaded |-> TRUE, shape |-> AnnShape,
       data |-> [v \in AnnVoxels |->
                   IF v[2] # 0 THEN 0
                   ELSE IF v[3] = 0 THEN row[1]
                   ELSE IF v[3] = 1 THEN row[2] ELSE row[3]]]
      : row \in { <<1, NaN, 0>>, <<MaxId + 1, ROOT_ID, 2>> } }

\* Transform files of the sessions: translations, and one that fails.
SessionTransforms == { T \in Transforms : T.A = Identity3 }

\* Python's truth value of current_fiber['top'] / ['bottom']: None is
\* false, a coordinate triple is true.
Truthy(pt) == pt # <<>>

\* region_info of next_fiber when current_fiber has no such key.
DefaultRegionInfo == Disposition(None, "N/A", "N/A", <<>>, NoCoords)

\* The bottom branch of on_click without the lookup's own error handling
\* being relied on: current_fiber after a lookup that returned or raised.
AfterLookup(top, pt, o) ==
    IF o.exc
    THEN [top |-> top, bottom |-> pt]
    ELSE [top |-> top, bottom |-> pt, region_info |-> o.ret]

\* on_click for a click that rounds to column x, row y of the shown slice.
on_click ==
    \E x \in (-1)..ImageShape[3], y \in (-1)..ImageShape[2] :
        LET z == current_slice
            pt == <<z, y, x>>
        IN IF x < 0 \/ x >= ImageShape[3] \/ y < 0 \/ y >= ImageShape[2]
           THEN UNCHANGED vars
           ELSE IF current_fiber.top = <<>>
           THEN /\ current_fiber' = [current_fiber EXCEPT !.top = pt]
                /\ UNCHANGED <<ontoVars, parseVars, fileVars, axisVars, refineVars, prepVars, selVars, alignVars, hierVars, cfgVars, callVars, regVars,
                               current_slice, fibers>>
           ELSE IF current_fiber.bottom = <<>>
           THEN LET o == get_region_at_point(id_to_info, use_registered,
                             transform, ccf_annotation, spacing, z, y, x)
                IN /\ current_fiber' = AfterLookup(current_fiber.top, pt, o)
                   /\ raised' = o.exc
                   /\ UNCHANGED <<ontoVars, parseVars, fileVars, axisVars, refineVars, prepVars, selVars, alignVars, hierVars, cfgVars, regVars,
                                  current_slice, fibers, call, args, ret_point,
                                  ret_region, ann_reads, point_physical,
                                  ccf_physical>>
           ELSE UNCHANGED vars

\* undo_current that leaves the key region_info in place.
undo_current_KeepsRegionInfo ==
    /\ IF Truthy(current_fiber.bottom)
       THEN current_fiber' = [current_fiber EXCEPT !.bottom = <<>>]
       ELSE IF Truthy(current_fiber.top)
       THEN current_fiber' = [current_fiber EXCEPT !.top = <<>>]
       ELSE UNCHANGED current_fiber
    /\ UNCHANGED <<ontoVars, parseVars, fileVars, axisVars, refineVars, hierVars, cfgVars, callVars, regVars, alignVars,
                   prepVars, selVars, current_slice, fibers>>

undo_current ==
    /\ IF Truthy(current_fiber.bottom)
       THEN current_fiber' = [top |-> current_fiber.top, bottom |-> <<>>]
       ELSE IF Truthy(current_fiber.top)
       THEN current_fiber' = [current_fiber EXCEPT !.top = <<>>]
       ELSE UNCHANGED current_fiber
    /\ UNCHANGED <<ontoVars, parseVars, fileVars, axisVars, refineVars, prepVars, selVars, alignVars, hierVars, cfgVars, callVars, regVars,
                   current_slice, fibers>>

\* undo_last_fiber that removes the oldest saved fiber.
undo_last_fiber_PopsFirst ==
    /\ IF Len(fibers) = 0
       THEN UNCHANGED fibers
       ELSE fibers' = Tail(fibers)
    /\ UNCHANGED <<ontoVars, parseVars, fileVars, axisVars, refineVars,
                   prepVars, selVars, alignVars, hierVars, cfgVars, callVars,
                   regVars, current_slice, current_fiber>>

undo_last_fiber ==
    /\ IF Len(fibers) = 0
       THEN UNCHANGED fibers
       ELSE fibers' = SubSeq(fibers, 1, Len(fibers) - 1)
    /\ UNCHANGED <<ontoVars, parseVars, fileVars, axisVars, refineVars, prepVars, selVars, alignVars, hierVars, cfgVars, callVars, regVars,
                   current_slice, current_fiber>>

\* The record next_fiber appends; ids count from 0.
FiberData(cf, n) ==
    LET region_info == IF "region_info" \in DOMAIN cf
                       THEN cf.region_info ELSE DefaultRegionInfo
    IN [id |-> n, top |-> cf.top, bottom |-> cf.bottom, color |-> n % 10,
        region_id |-> region_info.id,
        region_name |-> region_info.name,
        region_acronym |-> region_info.acronym,
        region_hierarchy |-> region_info.hierarchy,
        ccf_coords |-> region_info.ccf_coords]

next_fiber ==
    /\ Len(fibers) < MaxFibers
    /\ IF ~Truthy(current_fiber.top) \/ ~Truthy(current_fiber.bottom)
       THEN UNCHANGED <<current_fiber, fibers>>
       ELSE /\ fibers' = Append(fibers, FiberData(current_fiber, Len(fibers)))
            /\ current_fiber' = [top |-> <<>>, bottom |-> <<>>]
    /\ UNCHANGED <<ontoVars, parseVars, fileVars, axisVars, refineVars, prepVars, selVars, alignVars, hierVars, cfgVars, callVars, regVars,
                   current_slice>>

InitTrack ==
    /\ id_to_info \in LookupOntologies
    /\ HierIdle
    /\ NoParse
    /\ NoFiberFiles
    /\ NoVerifier
    /\ NoRefinement
    /\ NoResample
    /\ NoSelector
    /\ NoAligner
    /\ TrackerConfig(SessionTransforms, {NoAnnotation} \cup SessionAnnotations)
    /\ spacing = 1
    /\ ref_spacing = 1
    /\ NoCall
    /\ NoRegistration
    /\ NoSession

NextTrack == on_click \/ undo_current \/ undo_last_fiber \/ next_fiber

\* A tracking session on every configuration of the tracker.
SpecTrack == InitTrack /\ [][NextTrack]_vars

-----------------------------------------------------------------------------
(* get_region_hierarchy, one loop pass per step *)

\* Arguments the walk is called with.
QueryIds == {0} \cup (1..(MaxId + MaxUnseen)) \cup {ROOT_ID}

MaxDepths == {1, 2, DEFAULT_MAX_DEPTH}

\* Entry of get_region_hierarchy(region_id, max_depth).
HierCall ==
    /\ h_pc \in {"idle", "done"}
    /\ \E rid \in QueryIds, maxd \in MaxDepths :
          /\ region_id' = rid
          /\ max_depth' = maxd
          /\ current_id' = rid
    /\ depth' = 0
    /\ hierarchy' = <<>>
    /\ h_pc' = "loop"
    /\ UNCHANGED <<ontoVars, parseVars, fileVars, axisVars, refineVars, prepVars, selVars, alignVars, cfgVars, callVars, regVars, trackVars>>

WalkState ==
    [current_id |-> current_id, depth |-> depth, max_depth |-> max_depth,
     hierarchy |-> hierarchy, brk |-> FALSE]

\* One pass of the while loop, the break test included.
HierIter ==
    /\ h_pc = "loop"
    /\ HierGuard(WalkState)
    /\ LET w == HierBody(id_to_info, WalkState)
       IN /\ current_id' = w.current_id
          /\ depth' = w.depth
          /\ hierarchy' = w.hierarchy
          /\ h_pc' = IF w.brk THEN "done" ELSE "loop"
    /\ UNCHANGED <<ontoVars, parseVars, fileVars, axisVars, refineVars, prepVars, selVars, alignVars, cfgVars, callVars, regVars, trackVars, region_id,
                   max_depth>>

\* The loop condition is false: return hierarchy.
HierReturn ==
    /\ h_pc = "loop"
    /\ ~HierGuard(WalkState)
    /\ h_pc' = "done"
    /\ UNCHANGED <<ontoVars, parseVars, fileVars, axisVars, refineVars, prepVars, selVars, alignVars, cfgVars, callVars, regVars, trackVars, region_id,
                   max_depth,
                   current_id, depth, hierarchy>>

InitHier ==
    /\ id_to_info \in Ontologies
    /\ HierIdle
    /\ NoParse
    /\ NoFiberFiles
    /\ NoVerifier
    /\ NoRefinement
    /\ NoResample
    /\ NoSelector
    /\ NoAligner
    /\ NoTracker
    /\ NoCall
    /\ NoRegistration
    /\ NoSession

NextHier == HierCall \/ HierIter \/ HierReturn

SpecHier == InitHier /\ [][NextHier]_vars

\* The interpreter runs the loop to its end once the function is called.
SpecHierFair == SpecHier /\ WF_vars(HierIter) /\ WF_vars(HierReturn)

-----------------------------------------------------------------------------
(* Ancestry walk: termination and the returned path *)

\* The parent link the id index stores for an id (None when not indexed).
ParentOf(id) ==
    IF id \in DOMAIN id_to_info THEN id_to_info[id].parent_id ELSE None

\* The number of parent links, at least 1 and at most fuel, that lead from
\* id to the root for the first time; -1 when there is no such number.
RECURSIVE StepsToRoot(_, _)
StepsToRoot(id, fuel) ==
    IF fuel = 0 \/ id = None \/ id = 0 \/ id \notin DOMAIN id_to_info
    THEN -1
    ELSE IF ParentOf(id) = ROOT_ID
         THEN 1
         ELSE LET rest == StepsToRoot(ParentOf(id), fuel - 1)
              IN IF rest = -1 THEN -1 ELSE rest + 1

\* Names of id and of its next n - 1 ancestors, in parent order.
RECURSIVE NamesUp(_, _)
NamesUp(id, n) ==
    IF n = 0 THEN <<>>
    ELSE <<id_to_info[id].name>> \o NamesUp(ParentOf(id), n - 1)

\* C6: get_region_hierarchy terminates for every parent map (cycles,
\* self-parents and parents missing from the index included) and never
\* holds more than max_depth names.
C6_WalkTerminatesBounded ==
    /\ [](Len(hierarchy) <= max_depth /\ depth <= max_depth)
    /\ (h_pc = "loop") ~> (h_pc = "done")

\* A walk around a parent cycle that the depth bound ended after the
\* default 10 names.
C6_Witness ==
    /\ h_pc = "done"
    /\ max_depth = DEFAULT_MAX_DEPTH
    /\ Len(hierarchy) = DEFAULT_MAX_DEPTH
    /\ current_id \notin {None, ROOT_ID}

-----------------------------------------------------------------------------
(* Point mapping and region lookup: the dispositions *)

\* q is an integer nearest to the quotient p / s.
IsNearest(q, p, s) == 2 * Abs(p - q * s) <= s

\* The last call was transform_point_to_ccf in NeedsTransform mode with a
\* loaded transform whose application succeeds.
MappedByTransform ==
    /\ call = "transform_point_to_ccf"
    /\ ~use_registered
    /\ transform.loaded
    /\ ~transform.fails

\* C2: in NeedsTransform mode the voxel returned is, per axis, the index
\* times the subject spacing, mapped forward by T, divided by the spacing of
\* the reference volume and rounded to the nearest integer.
C2_MapsToReferenceGrid ==
    MappedByTransform =>
        LET p == <<args[3] * spacing, args[2] * spacing, args[1] * spacing>>
            m == VecAdd(MatVec(transform.A, p), transform.t)
        IN /\ ~raised
           /\ IsNearest(ret_point[3], m[1], ref_spacing)
           /\ IsNearest(ret_point[2], m[2], ref_spacing)
           /\ IsNearest(ret_point[1], m[3], ref_spacing)

\* The last call was get_region_at_point with an annotation volume loaded,
\* and it mapped the clicked voxel to the coordinate ret_point.
LookedUp ==
    /\ call = "get_region_at_point"
    /\ ccf_annotation.loaded
    /\ ret_point # <<>>

\* The mapped coordinate lies outside the annotation volume on some axis.
CoordOutside ==
    \E i \in 1..3 : ret_point[i] < 0 \/ ret_point[i] >= ccf_annotation.shape[i]

\* C3: a coordinate outside the annotation volume on any axis is answered
\* with the Out-of-Bounds disposition, the coordinate echoed, nothing
\* raised and no voxel of the volume read.
C3_OutOfBoundsDisposition ==
    (LookedUp /\ CoordOutside) =>
        /\ ~raised
        /\ ret_region = [id |-> -1, name |-> "Out of Bounds",
                         acronym |-> "OOB", hierarchy |-> <<>>,
                         ccf_coords |-> ret_point]
        /\ ann_reads = {}

\* A lookup at x = -1, where numpy indexing would have wrapped around to a
\* voxel that stores region 1.
C3_Witness ==
    /\ LookedUp
    /\ ret_point = <<0, 0, -1>>
    /\ ccf_annotation.data[<<0, 0, AnnShape[3] - 1>>] = 1
    /\ ret_region.acronym = "OOB"

\* C4: an in-range coordinate whose voxel stores 0 is Background, whatever
\* the coordinate and whether or not the index holds a record under id 0.
C4_BackgroundDisposition ==
    (LookedUp /\ ~CoordOutside /\ ccf_annotation.data[ret_point] = 0) =>
        /\ ~raised
        /\ ret_region = [id |-> 0, name |-> "Outside Brain",
                         acronym |-> "OUT", hierarchy |-> <<>>,
                         ccf_coords |-> ret_point]

\* A Background answer from a tracker whose index has a record under id 0,
\* at a coordinate that the transform moved.
C4_Witness ==
    /\ LookedUp
    /\ ~CoordOutside
    /\ 0 \in DOMAIN id_to_info
    /\ ret_point # args
    /\ ccf_annotation.data[ret_point] = 0
    /\ ret_region.id = 0

\* C5: an in-range coordinate whose voxel stores a non-zero id missing from
\* the index is answered with the synthetic Unknown record of that id, which
\* has no parent, and the hierarchy is the one Unknown name.
C5_UnknownDisposition ==
    (LookedUp /\ ~CoordOutside) =>
        LET v == ccf_annotation.data[ret_point]
        IN (v \notin {0, NaN} /\ v \notin DOMAIN id_to_info) =>
             /\ ~raised
             /\ ret_region.id = v
             /\ ret_region.name = "Unknown_Region_" \o ToString(v)
             /\ ret_region.hierarchy = <<"Unknown_Region_" \o ToString(v)>>
             /\ ret_region.ccf_coords = ret_point
             /\ get_region_info(id_to_info, v).id = v
             /\ get_region_info(id_to_info, v).parent_id = None

\* A lookup that met the unseen id MaxId + 1.
C5_Witness ==
    /\ LookedUp
    /\ ~CoordOutside
    /\ ccf_annotation.data[ret_point] = MaxId + 1
    /\ MaxId + 1 \notin DOMAIN id_to_info
    /\ ret_region.name = "Unknown_Region_" \o ToString(MaxId + 1)

-----------------------------------------------------------------------------
(* Landmark registration: residuals, the landmark count, the axis order *)

\* The cross product of q - p and r - p.
Cross(p, q, r) ==
    LET u == [i \in 1..3 |-> q[i] - p[i]]
        v == [i \in 1..3 |-> r[i] - p[i]]
    IN <<u[2] * v[3] - u[3] * v[2], u[3] * v[1] - u[1] * v[3],
         u[1] * v[2] - u[2] * v[1]>>

\* Physical point (x*s_x, y*s_y, z*s_z) of a voxel (z, y, x).
Physical(lm, sp) == <<lm[3] * sp[1], lm[2] * sp[2], lm[1] * sp[3]>>

\* Number of correspondence pairs of the call.
Pairs == ZipLen(moving_landmarks, fixed_landmarks)

\* The paired landmarks are at least 3, not all on one line, and the fixed
\* physical points are an exact rigid image of the moving physical points
\* (the moving points are the image of the fixed ones under the inverse
\* rigid map G).
ExactRigidPairs ==
    /\ Pairs >= 3
    /\ Len(moving_landmarks) = Len(fixed_landmarks)
    /\ \E i, j, k \in 1..Pairs :
          Cross(Physical(fixed_landmarks[i], fixed_spacing),
                Physical(fixed_landmarks[j], fixed_spacing),
                Physical(fixed_landmarks[k], fixed_spacing)) # <<0, 0, 0>>
    /\ \E G \in TransformsOf("rigid") :
          \A i \in 1..Pairs :
              TransformPoint(G, Physical(fixed_landmarks[i], fixed_spacing)).ret
                 = Physical(moving_landmarks[i], moving_spacing)

\* C1: for N >= 3 non-collinear pairs related by an exact rigid map, a
\* rigid or similarity registration reports residual 0 for every pair.
C1_ExactPairsZeroResidual ==
    (reg_pc = "done" /\ transform_type \in {"rigid", "similarity"}
       /\ ExactRigidPairs) =>
        \A i \in 1..Pairs : errors[i] = 0

\* C8: the call raises the input-validation error, before anything is
\* solved or resampled, exactly when the number of pairs actually paired,
\* min(len(moving), len(fixed)), is below 3 (rigid, similarity) or 4 (affine).
C8_RaisesOnTooFewPairs ==
    (reg_pc \in {"raised", "done"} /\ transform_type \in KnownTypes) =>
        LET need == IF transform_type = "affine" THEN 4 ELSE 3
        IN /\ Pairs < need =>
                /\ reg_pc = "raised"
                /\ error = "ValueError"
                /\ landmark_transform = [loaded |-> FALSE]
                /\ ~resampled
           /\ Pairs >= need => reg_pc = "done"

\* C9: one index-to-physical permutation everywhere.  The registration
\* hands (x*s_x, y*s_y, z*s_z) to the solver for every paired landmark and
\* measures its residuals between such points; the tracker maps the voxel
\* (z, y, x) to (x*s, y*s, z*s) and the mapped physical (x, y, z) back to
\* the voxel (z, y, x).
C9_OnePermutation ==
    /\ reg_pc = "done" =>
          \A i \in 1..Pairs :
             /\ PointAt(moving_points, i)
                   = Physical(moving_landmarks[i], moving_spacing)
             /\ PointAt(fixed_points, i)
                   = Physical(fixed_landmarks[i], fixed_spacing)
             /\ errors[i] =
                   SqDist(VecAdd(MatVec(landmark_transform.A,
                                        Physical(moving_landmarks[i],
                                                 moving_spacing)),
                                 landmark_transform.t),
                          Physical(fixed_landmarks[i], fixed_spacing))
    /\ MappedByTransform =>
          /\ point_physical = <<args[3] * spacing, args[2] * spacing,
                                args[1] * spacing>>
          /\ IsNearest(ret_point[1], ccf_physical[3], spacing)
          /\ IsNearest(ret_point[2], ccf_physical[2], spacing)
          /\ IsNearest(ret_point[3], ccf_physical[1], spacing)

\* A tracker started on a finished registration has mapped a voxel whose
\* three indices differ, through a transform that is not the identity.
C9_Witness ==
    /\ reg_pc = "done"
    /\ Pairs >= 3
    /\ MappedByTransform
    /\ args = <<0, 1, 2>>
    /\ transform.A = RotZ90
    /\ ret_point # args

-----------------------------------------------------------------------------
(* The tracking session survives every lookup *)

\* Keys every disposition record carries.
DispositionKeys == {"id", "name", "acronym", "hierarchy", "ccf_coords"}

\* C10: whatever the clicked point, the annotation volume, the ontology and
\* the transform hold, get_region_at_point raises nothing and returns a
\* record with the keys id, name, acronym, hierarchy and ccf_coords: every
\* marked bottom has such a region_info, next_fiber saves that region, and
\* no saved fiber carries the placeholder of a lookup that never returned.
C10_LookupAlwaysReturnsDisposition ==
    /\ ~raised
    /\ Truthy(current_fiber.bottom) =>
          /\ "region_info" \in DOMAIN current_fiber
          /\ DispositionKeys \subseteq DOMAIN current_fiber.region_info
          /\ FiberData(current_fiber, Len(fibers)).region_name
                = current_fiber.region_info.name
    /\ \A i \in 1..Len(fibers) :
          fibers[i].region_name # DefaultRegionInfo.name

\* A session in which the lookup of a saved fiber failed (the voxel holds no
\* integer, the Error disposition) and a later click was looked up to a
\* region with its ancestry.
C10_Witness ==
    /\ Len(fibers) >= 1
    /\ fibers[1].region_acronym = "ERR"
    /\ Truthy(current_fiber.bottom)
    /\ current_fiber.region_info.id = 1
    /\ current_fiber.region_info.hierarchy = <<"R1", "R2">>

-----------------------------------------------------------------------------
(* MidlineAligner.apply_alignment *)

\* Angles are counted in microradians.
NEGLIGIBLE_ANGLE == 1000

\* pi / 2 and pi.
QuarterTurn == 1570796

HalfTurn == 3141593

\* arccos(3/5) and arccos(4/5).
ArcCos35 == 927295

ArcCos45 == 643501

\* arccos(-3/5) and arccos(-4/5).
ArcCosNeg35 == 2214297

ArcCosNeg45 == 2498092

\* The angles with a rational cosine and sine: cos = CosOf / TrigDen and
\* sin = SinOf / TrigDen.
TrigDen(a) ==
    IF Abs(a) \in {ArcCos35, ArcCos45, ArcCosNeg35, ArcCosNeg45} THEN 5 ELSE 1

CosOf(a) ==
    CASE a = 0 -> 1
      [] Abs(a) = ArcCos45 -> 4
      [] Abs(a) = ArcCos35 -> 3
      [] Abs(a) = QuarterTurn -> 0
      [] Abs(a) = ArcCosNeg35 -> -3
      [] Abs(a) = ArcCosNeg45 -> -4
      [] Abs(a) = HalfTurn -> -1

SinOf(a) ==
    CASE a = 0 -> 0
      [] Abs(a) \in {ArcCos45, ArcCosNeg45} -> IF a > 0 THEN 3 ELSE -3
      [] Abs(a) \in {ArcCos35, ArcCosNeg35} -> IF a > 0 THEN 4 ELSE -4
      [] Abs(a) = QuarterTurn -> IF a > 0 THEN 1 ELSE -1
      [] Abs(a) = HalfTurn -> 0

\* Rotation.from_rotvec(angle * axis).as_matrix() for a unit axis k:
\* cos I + sin [k]x + (1 - cos) k k^T, times TrigDen(angle).
RotationMatrix(angle, k) ==
    LET c == CosOf(angle)
        sn == SinOf(angle)
        m == TrigDen(angle)
        K == << <<0, -k[3], k[2]>>, <<k[3], 0, -k[1]>>, <<-k[2], k[1], 0>> >>
    IN [i \in 1..3 |-> [j \in 1..3 |->
          (IF i = j THEN c ELSE 0) + sn * K[i][j] + (m - c) * k[i] * k[j]]]

\* Voxel indices (z, y, x) of a volume of the given shape.
VoxelsOf(shape) ==
    (0..(shape[1] - 1)) \X (0..(shape[2] - 1)) \X (0..(shape[3] - 1))

\* A float32 value m * 2^e with |m| < 2^24.
MANTISSA == 16777216

RECURSIVE Float32Exp(_, _)
Float32Exp(a, e) == IF a \div (2 ^ e) < MANTISSA THEN e ELSE Float32Exp(a, e + 1)

\* astype(np.float32) of an integer: round to 24 significant bits, ties to
\* the even mantissa.
Float32(v) ==
    LET a == Abs(v)
        e == Float32Exp(a, 0)
        q == a \div (2 ^ e)
        r == a % (2 ^ e)
        up == 2 * r > 2 ^ e \/ (2 * r = 2 ^ e /\ q % 2 = 1)
        m == IF up THEN q + 1 ELSE q
        sign == IF v < 0 THEN -1 ELSE 1
    IN IF m = MANTISSA THEN [m |-> sign * (MANTISSA \div 2), e |-> e + 1]
       ELSE [m |-> sign * m, e |-> e]

\* f <= n and f >= n for a float32 f and an integer n.
FloatLE(f, n) == f.m <= n \div (2 ^ f.e)

FloatGE(f, n) ==
    f.m >= (n \div (2 ^ f.e)) + (IF n % (2 ^ f.e) = 0 THEN 0 ELSE 1)

INT32_MAX == 2147483647

INT32_MIN == -2147483647 - 1

\* The integer element types and their ranges.
TypeMin(dtype) ==
    CASE dtype = "uint8" -> 0 [] dtype = "uint16" -> 0 [] dtype = "int32" -> INT32_MIN

TypeMax(dtype) ==
    CASE dtype = "uint8" -> 255 [] dtype = "uint16" -> 65535
      [] dtype = "int32" -> INT32_MAX

\* np.clip(f, lo, hi) on a float32.
Clip(f, lo, hi) ==
    IF ~FloatGE(f, lo) THEN Float32(lo)
    ELSE IF ~FloatLE(f, hi) THEN Float32(hi)
    ELSE f

\* What a float-to-integer cast of an out-of-range value yields is not
\* defined: the value 0x80...0 on x86, the nearest bound on ARM.
CastOutcomes == {"indefinite", "saturate"}

\* aligned.astype(dtype) of one float32 value.
AsType(f, dtype, ub) ==
    IF dtype = "float32" THEN f.m * (2 ^ f.e)
    ELSE IF FloatGE(f, TypeMin(dtype)) /\ FloatLE(f, TypeMax(dtype))
         THEN f.m * (2 ^ f.e)
    ELSE IF ub = "indefinite" THEN TypeMin(dtype)
    ELSE IF FloatGE(f, TypeMin(dtype)) THEN TypeMax(dtype)
    ELSE TypeMin(dtype)

\* Lines 804-809: the conversion back to the original dtype.
ConvertBack(f, dtype, ub) ==
    IF dtype = "uint16" THEN AsType(Clip(f, 0, 65535), "uint16", ub)
    ELSE IF dtype = "uint8" THEN AsType(Clip(f, 0, 255), "uint8", ub)
    ELSE AsType(f, dtype, ub)

\* Lines 722-729 without the handedness negation.
SignCorrected_NoHandednessFix(theta, rev) == IF rev THEN -theta ELSE theta

\* Lines 722-729: the mandatory negation, then the optional reversal.
SignCorrected(theta, rev) ==
    LET negated == -theta
    IN IF rev THEN -negated ELSE negated

\* plane_params.get('centroid', [s / 2.0 for s in original_shape][::-1]); a
\* point sum / n in (x, y, z) order.
CentroidOf(pp, shape) ==
    IF "centroid" \in DOMAIN pp THEN pp.centroid
    ELSE [sum |-> <<shape[3], shape[2], shape[1]>>, n |-> 2]

\* The affine transform with matrix A / m and center c applied to the
\* physical point p: (A / m) (p - c) + c, times m * c.n.
ScaledImage(A, m, c, p) ==
    VecAdd(MatVec(A, [i \in 1..3 |-> c.n * p[i] - c.sum[i]]),
           [i \in 1..3 |-> m * c.sum[i]])

\* The resampler on a float32 image with unit spacing: the output voxel
\* (z, y, x) takes the input value at the transform's image of (x, y, z), the
\* default pixel value 0 outside the buffer. Linear interpolation is exact
\* where the image is a voxel centre, the only positions sampled here.
Resample(fdata, shape, A, m, c) ==
    [v \in VoxelsOf(shape) |->
        LET q == ScaledImage(A, m, c, <<v[3], v[2], v[1]>>)
            den == m * c.n
            src == <<q[3] \div den, q[2] \div den, q[1] \div den>>
        IN IF src \in VoxelsOf(shape) THEN fdata[src] ELSE Float32(0)]

\* The transform of lines 758-775.
BuildRotation(angle, axis, c) ==
    [built |-> TRUE, angle |-> angle, axis |-> axis, center |-> c,
     matrix |-> RotationMatrix(angle, axis), den |-> TrigDen(angle)]

\* apply_alignment with a short circuit that returns the float32 copy.
apply_alignment_NegligibleAsFloat32(img, pp, rev, ub) ==
    LET angle == SignCorrected(pp.rotation_angle, rev)
        c == CentroidOf(pp, img.shape)
        T == BuildRotation(angle, pp.rotation_axis, c)
        fdata == [v \in VoxelsOf(img.shape) |-> Float32(img.data[v])]
        out == Resample(fdata, img.shape, T.matrix, T.den, c)
    IN IF Abs(angle) < NEGLIGIBLE_ANGLE
       THEN [rotation_angle |-> angle, transform |-> NoRotation,
             ret |-> [img EXCEPT !.dtype = "float32"]]
       ELSE [rotation_angle |-> angle, transform |-> T,
             ret |-> [shape |-> img.shape, dtype |-> img.dtype,
                      data |-> [v \in VoxelsOf(img.shape) |->
                                   ConvertBack(out[v], img.dtype, ub)]]]

apply_alignment(img, pp, rev, ub) ==
    LET angle == SignCorrected(pp.rotation_angle, rev)
        c == CentroidOf(pp, img.shape)
        T == BuildRotation(angle, pp.rotation_axis, c)
        fdata == [v \in VoxelsOf(img.shape) |-> Float32(img.data[v])]
        out == Resample(fdata, img.shape, T.matrix, T.den, c)
    IN IF Abs(angle) < NEGLIGIBLE_ANGLE
       THEN [rotation_angle |-> angle, transform |-> NoRotation, ret |-> img]
       ELSE [rotation_angle |-> angle, transform |-> T,
             ret |-> [shape |-> img.shape, dtype |-> img.dtype,
                      data |-> [v \in VoxelsOf(img.shape) |->
                                   ConvertBack(out[v], img.dtype, ub)]]]

\* The volumes the aligner is constructed on: zero but for one voxel.
AlignShape == <<1, 3, 3>>

AlignDtypes == {"uint8", "uint16", "int32", "float32"}

SampleValues(dtype) ==
    CASE dtype = "uint8" -> {7, 255}
      [] dtype = "uint16" -> {7, 65535}
      [] dtype = "int32" -> {-7, INT32_MAX}
      [] dtype = "float32" -> {7}

AlignVolumes ==
    { [shape |-> AlignShape, dtype |-> d,
       data |-> [v \in VoxelsOf(AlignShape) |-> IF v = hot THEN val ELSE 0]] :
        <<d, hot, val>> \in
            { t \in AlignDtypes \X VoxelsOf(AlignShape)
                      \X {-7, 7, 255, 65535, INT32_MAX} :
                  t[3] \in SampleValues(t[1]) } }

\* Rotation angles: none, below the threshold, quarter and half turns.
AlignAngles ==
    {0, 500, -500, 999, -999, QuarterTurn, -QuarterTurn, HalfTurn, -HalfTurn}

AlignAxes == {<<0, 0, 1>>, <<1, 0, 0>>, <<0, -1, 0>>}

\* Centroids (x, y, z) about which those turns map voxel centres to voxel
\* centres: the coordinates are all integers or all odd halves.
AlignCentroids ==
    { [sum |-> <<1, 1, 0>>, n |-> 1], [sum |-> <<0, 2, 0>>, n |-> 1],
      [sum |-> <<1, 3, 1>>, n |-> 2] }

\* The PlaneFits apply_alignment is called with, one of them without the
\* key centroid.
AlignPlaneParams ==
    { [fitted |-> TRUE, rotation_axis |-> k, rotation_angle |-> a,
       centroid |-> c] : k \in AlignAxes, a \in AlignAngles, c \in AlignCentroids }
    \cup
    { [fitted |-> TRUE, rotation_axis |-> k, rotation_angle |-> a] :
          k \in AlignAxes, a \in AlignAngles }

\* A call self.apply_alignment(plane_params, reverse).
CallApplyAlignment ==
    /\ align_pc = "idle"
    /\ \E pp \in AlignPlaneParams, rev \in BOOLEAN, ub \in CastOutcomes :
        LET r == apply_alignment(image, pp, rev, ub)
        IN /\ plane_params' = pp
           /\ reverse' = rev
           /\ rotation_angle' = r.rotation_angle
           /\ align_transform' = r.transform
           /\ aligned' = r.ret
           /\ align_pc' = "aligned"
    /\ UNCHANGED <<ontoVars, parseVars, fileVars, axisVars, refineVars, prepVars, selVars, hierVars, cfgVars, callVars, regVars, trackVars,
                   image, midline_points, current_view, view_slice,
                   points_file>>

\* The caller has taken the aligned volume.
AlignReturn ==
    /\ align_pc = "aligned"
    /\ align_pc' = "idle"
    /\ plane_params' = NoFit
    /\ reverse' = FALSE
    /\ rotation_angle' = 0
    /\ align_transform' = NoRotation
    /\ aligned' = NoVolume
    /\ UNCHANGED <<ontoVars, parseVars, fileVars, axisVars, refineVars, prepVars, selVars, hierVars, cfgVars, callVars, regVars, trackVars,
                   image, midline_points, current_view, view_slice,
                   points_file>>

InitAlign ==
    /\ id_to_info = [i \in {} |-> InfoRecord(i, None)]
    /\ HierIdle
    /\ NoParse
    /\ NoFiberFiles
    /\ NoVerifier
    /\ NoRefinement
    /\ NoResample
    /\ NoSelector
    /\ NoTracker
    /\ NoCall
    /\ NoRegistration
    /\ NoSession
    /\ image \in AlignVolumes
    /\ midline_points = <<>>
    /\ current_view = "none"
    /\ view_slice = 0
    /\ points_file = <<>>
    /\ align_pc = "idle"
    /\ plane_params = NoFit
    /\ reverse = FALSE
    /\ rotation_angle = 0
    /\ align_transform = NoRotation
    /\ aligned = NoVolume

NextAlign == CallApplyAlignment \/ AlignReturn

\* apply_alignment called on every volume with every PlaneFit.
SpecAlign == InitAlign /\ [][NextAlign]_vars

-----------------------------------------------------------------------------
(* MidlineAligner: marking the midline and fitting the plane *)

\* Marked points a session holds at most.
MaxPoints == 3

Views == {"axial", "coronal", "sagittal"}

\* info['max_slice'] of get_slice_and_info.
MaxSlice(shape, view) ==
    CASE view = "axial" -> shape[2] - 1
      [] view = "coronal" -> shape[1] - 1
      [] view = "sagittal" -> shape[3] - 1

\* The voxel of the image shown at [row][col] of the 2D slice that
\* get_slice_and_info(view, slice_idx) returns: image[:, s, :],
\* image[s, :, :] and image[:, :, s].
SliceVoxel(view, slice_idx, row, col) ==
    CASE view = "axial" -> <<row, slice_idx, col>>
      [] view = "coronal" -> <<slice_idx, row, col>>
      [] view = "sagittal" -> <<row, col, slice_idx>>

\* slice_2d of get_slice_and_info: [row][col] -> value.
get_slice_and_info(img, view, slice_idx) ==
    LET rows == IF view = "coronal" THEN img.shape[2] ELSE img.shape[1]
        cols == IF view = "sagittal" THEN img.shape[2] ELSE img.shape[3]
    IN [r \in 0..(rows - 1) |-> [c \in 0..(cols - 1) |->
            img.data[SliceVoxel(view, slice_idx, r, c)]]]

\* The conversion with the conventions of axial and coronal exchanged.
Point3D_AxialCoronalSwapped(view, slice_idx, row, col) ==
    CASE view = "axial" -> <<col, row, slice_idx>>
      [] view = "coronal" -> <<col, slice_idx, row>>
      [] view = "sagittal" -> <<slice_idx, col, row>>

\* Lines 613-628: the 3D point (x, y, z) of a click (row, col) on a slice.
Point3D(view, slice_idx, row, col) ==
    CASE view = "axial" -> <<col, slice_idx, row>>
      [] view = "coronal" -> <<col, row, slice_idx>>
      [] view = "sagittal" -> <<slice_idx, col, row>>

\* int() of a coordinate given in halves: truncation toward zero.
IntOfHalves(h) == IF h >= 0 THEN h \div 2 ELSE -((-h) \div 2)

\* The dict with the click (row, col) appended under key.
WithClick(mp, key, row, col) ==
    [k \in DOMAIN mp \cup {key} |->
        IF k = key
        THEN Append(IF key \in DOMAIN mp THEN mp[key] ELSE <<>>, <<row, col>>)
        ELSE mp[k]]

\* The key stays, with an empty list.
WithoutKey_KeepsKey(mp, key) ==
    [k \in DOMAIN mp |-> IF k = key THEN <<>> ELSE mp[k]]

\* The dict without key.
WithoutKey(mp, key) == [k \in DOMAIN mp \ {key} |-> mp[k]]

\* The marked clicks, each named by its key and its place in the key's list.
AllClicks(mp) == UNION { { <<k, i>> : i \in 1..Len(mp[k]) } : k \in DOMAIN mp }

ClickPoint(mp, e) == Point3D(e[1][1], e[1][2], mp[e[1]][e[2]][1], mp[e[1]][e[2]][2])

\* points_3d, without its order.
Points3D(mp) == { ClickPoint(mp, e) : e \in AllClicks(mp) }

RECURSIVE PointSum(_, _)
PointSum(mp, S) ==
    IF S = {} THEN <<0, 0, 0>>
    ELSE LET e == CHOOSE e \in S : TRUE
         IN VecAdd(ClickPoint(mp, e), PointSum(mp, S \ {e}))

\* points_3d.mean(axis=0) as the point sum / n.
CentroidOfPoints(mp) ==
    [sum |-> PointSum(mp, AllClicks(mp)), n |-> Cardinality(AllClicks(mp))]

Dot(u, v) == u[1] * v[1] + u[2] * v[2] + u[3] * v[3]

CrossProduct(u, v) ==
    <<u[2] * v[3] - u[3] * v[2], u[3] * v[1] - u[1] * v[3],
      u[1] * v[2] - u[2] * v[1]>>

\* Unit vectors v / d with integer v and d, and an integer norm of (v2, v3).
UnitVectors ==
    { [v |-> <<sg * t[1], sg * t[2], sg * t[3]>>, d |-> t[4]] :
        sg \in {1, -1},
        t \in {<<1, 0, 0, 1>>, <<0, 1, 0, 1>>, <<0, 0, 1, 1>>, <<3, 4, 0, 5>>} }

\* vh[-1] of the SVD of the centered points when these lie in a plane: a unit
\* vector orthogonal to every difference of two points; its sign, and its
\* direction when the points lie on one line, are whatever the SVD yields.
SmallestSingularVectors(pts) ==
    { u \in UnitVectors :
        \A p \in pts, q \in pts : Dot(u.v, [i \in 1..3 |-> p[i] - q[i]]) = 0 }

\* The norm of (v2, v3) for a unit vector of UnitVectors.
NormYZ(u) == CHOOSE r \in 0..u.d : r * r = u.v[2] * u.v[2] + u.v[3] * u.v[3]

\* arccos of the cosines unit vectors of UnitVectors have with +X.
ArcCos(num, den) ==
    CASE num = den -> 0
      [] 5 * num = 4 * den -> ArcCos45
      [] 5 * num = 3 * den -> ArcCos35
      [] num = 0 -> QuarterTurn
      [] 5 * num = -3 * den -> ArcCosNeg35
      [] 5 * num = -4 * den -> ArcCosNeg45
      [] num = -den -> HalfTurn

\* num / den < -1e-8 for den > 0.
BelowTolerance(num, den) == num < 0 /\ den \div (-num) < 100000000

\* The normal is left as the SVD gave it.
Oriented_NoFlip(u) == u

\* Lines 644-645: the normal is turned toward +X.
Oriented(u) ==
    IF u.v[1] < 0 THEN [u EXCEPT !.v = <<-u.v[1], -u.v[2], -u.v[3]>>] ELSE u

\* The cross product taken in the other order.
RotationAxis_Reversed(u) == CrossProduct(<<1, 0, 0>>, u.v)

\* Line 654: np.cross(normal, target_normal), times u.d.
RotationAxis(u) == CrossProduct(u.v, <<1, 0, 0>>)

\* Lines 654-689: axis and angle of the rotation for the oriented normal u.
FitRotation(u) ==
    LET w == RotationAxis(u)
        rotation_axis_norm == NormYZ(u)
    IN IF rotation_axis_norm > 0 /\ u.d \div rotation_axis_norm < 1000000
       THEN LET axis == [i \in 1..3 |-> w[i] \div rotation_axis_norm]
                angle == ArcCos(u.v[1], u.d)
                m == TrigDen(angle)
                rotated_normal == MatVec(RotationMatrix(angle, axis), u.v)
                dot_after == rotated_normal[1]
                dot_before == m * u.v[1]
            IN IF BelowTolerance(dot_after - dot_before, m * u.d)
               THEN [axis |-> <<-axis[1], -axis[2], -axis[3]>>, angle |-> -angle]
               ELSE [axis |-> <<axis[1], axis[2], axis[3]>>, angle |-> angle]
       ELSE [axis |-> <<0, 0, 1>>, angle |-> 0]

\* fit_midline_plane on the dict mp when the SVD yields the vector u.
fit_midline_plane(mp, u) ==
    IF Cardinality(DOMAIN mp) < 2 THEN Raise
    ELSE LET normal == Oriented(u)
             rot == FitRotation(normal)
         IN Ret([fitted |-> TRUE, normal |-> normal,
                 centroid |-> CentroidOfPoints(mp),
                 rotation_axis |-> rot.axis, rotation_angle |-> rot.angle,
                 points_3d |-> Points3D(mp)])

\* The characters of a view name, of "_" and of a slice index.
ViewChars(view) ==
    CASE view = "axial" -> <<"a", "x", "i", "a", "l">>
      [] view = "coronal" -> <<"c", "o", "r", "o", "n", "a", "l">>
      [] view = "sagittal" -> <<"s", "a", "g", "i", "t", "t", "a", "l">>

RECURSIVE DigitChars(_)
DigitChars(n) ==
    IF n < 10 THEN <<ToString(n)>>
    ELSE DigitChars(n \div 10) \o <<ToString(n % 10)>>

\* f"{k[0]}_{k[1]}"
FormatKey(k) == ViewChars(k[1]) \o <<"_">> \o DigitChars(k[2])

\* k.rsplit('_', 1): the text before and after the last "_".
RSplit(cs) ==
    LET at == CHOOSE i \in 1..Len(cs) :
                  cs[i] = "_" /\ \A j \in (i + 1)..Len(cs) : cs[j] # "_"
    IN <<SubSeq(cs, 1, at - 1), SubSeq(cs, at + 1, Len(cs))>>

RECURSIVE ParseInt(_)
ParseInt(cs) ==
    LET last == CHOOSE d \in 0..9 : ToString(d) = cs[Len(cs)]
    IN IF Len(cs) = 1 THEN last
       ELSE 10 * ParseInt(SubSeq(cs, 1, Len(cs) - 1)) + last

\* The key (view, int(slice_idx)) of a key of the file.
ParseKey(cs) ==
    LET parts == RSplit(cs)
    IN <<CHOOSE view \in Views : ViewChars(view) = parts[1], ParseInt(parts[2])>>

\* What save_midline_points writes for the dict mp.
SaveFile(mp) ==
    [midline_points |->
        [cs \in { FormatKey(k) : k \in DOMAIN mp } |->
            mp[CHOOSE k \in DOMAIN mp : FormatKey(k) = cs]]]

\* The dict load_midline_points builds from a file.
LoadFile(file) ==
    [k \in { ParseKey(cs) : cs \in DOMAIN file.midline_points } |->
        file.midline_points[CHOOSE cs \in DOMAIN file.midline_points :
                                ParseKey(cs) = k]]

\* The volume that is marked; every voxel holds a value of its own.
MarkShape == <<2, 4, 5>>

MarkImage ==
    [shape |-> MarkShape, dtype |-> "uint16",
     data |-> [v \in VoxelsOf(MarkShape) |-> 100 * v[1] + 10 * v[2] + v[3]]]

\* The voxels (x, y, z) the user marks: they span the planes x = 4, y = 3,
\* z = 0 and 3x + 4y = 12.
MarkVoxels ==
    {<<0, 3, 0>>, <<4, 0, 0>>, <<0, 3, 1>>, <<4, 3, 0>>, <<4, 0, 1>>}

alignCallVars == <<plane_params, reverse, rotation_angle, align_transform,
                   aligned>>

\* mark_midline up to plt.show(): the view is selected, or the selection is
\* cancelled and mark_midline returns.
mark_midline ==
    /\ align_pc = "idle"
    /\ \E view \in Views \cup {"none"} :
          /\ current_view' = view
          /\ IF view = "none"
             THEN align_pc' = "done" /\ UNCHANGED view_slice
             ELSE /\ align_pc' = "marking"
                  /\ view_slice' = MaxSlice(image.shape, view) \div 2
    /\ UNCHANGED <<ontoVars, parseVars, fileVars, axisVars, refineVars, prepVars, selVars, hierVars, cfgVars, callVars, regVars, trackVars,
                   image, midline_points, points_file, alignCallVars>>

\* The slider is moved to val.
update_slice ==
    /\ align_pc = "marking"
    /\ \E val \in 0..MaxSlice(image.shape, current_view) : view_slice' = val
    /\ UNCHANGED <<ontoVars, parseVars, fileVars, axisVars, refineVars, prepVars, selVars, hierVars, cfgVars, callVars, regVars, trackVars,
                   image, midline_points, current_view, points_file, align_pc,
                   alignCallVars>>

\* The mouse wheel over the axes.
on_scroll ==
    /\ align_pc = "marking"
    /\ \E button \in {"up", "down"} :
          view_slice' =
              IF button = "up"
              THEN IF view_slice + 1 < MaxSlice(image.shape, current_view)
                   THEN view_slice + 1
                   ELSE MaxSlice(image.shape, current_view)
              ELSE IF view_slice - 1 > 0 THEN view_slice - 1 ELSE 0
    /\ UNCHANGED <<ontoVars, parseVars, fileVars, axisVars, refineVars, prepVars, selVars, hierVars, cfgVars, callVars, regVars, trackVars,
                   image, midline_points, current_view, points_file, align_pc,
                   alignCallVars>>

\* One of the buttons Axial, Coronal, Sagittal, or Change View.
change_to_view ==
    /\ align_pc = "marking"
    /\ \E new_view \in Views :
          /\ current_view' = new_view
          /\ view_slice' = MaxSlice(image.shape, new_view) \div 2
    /\ UNCHANGED <<ontoVars, parseVars, fileVars, axisVars, refineVars, prepVars, selVars, hierVars, cfgVars, callVars, regVars, trackVars,
                   image, midline_points, points_file, align_pc, alignCallVars>>

\* A left click inside the axes at (xdata, ydata), given in halves of a
\* pixel, on one of the voxels to mark; the marked points stay in a plane.
onclick ==
    /\ align_pc = "marking"
    /\ current_view # "none"
    /\ Cardinality(AllClicks(midline_points)) < MaxPoints
    /\ \E x2 \in (-1)..(2 * MarkShape[3] - 1), y2 \in (-1)..(2 * MarkShape[2] - 1) :
          LET col == IntOfHalves(x2)
              row == IntOfHalves(y2)
              key == <<current_view, view_slice>>
              voxel == SliceVoxel(current_view, view_slice, row, col)
              new == WithClick(midline_points, key, row, col)
          IN /\ <<voxel[3], voxel[2], voxel[1]>> \in MarkVoxels
             /\ SmallestSingularVectors(Points3D(new)) # {}
             /\ midline_points' = new
    /\ UNCHANGED <<ontoVars, parseVars, fileVars, axisVars, refineVars, prepVars, selVars, hierVars, cfgVars, callVars, regVars, trackVars,
                   image, current_view, view_slice, points_file, align_pc,
                   alignCallVars>>

\* The button Clear Slice.
on_clear ==
    /\ align_pc = "marking"
    /\ LET key == <<current_view, view_slice>>
       IN midline_points' = IF key \in DOMAIN midline_points
                            THEN WithoutKey(midline_points, key)
                            ELSE midline_points
    /\ UNCHANGED <<ontoVars, parseVars, fileVars, axisVars, refineVars, prepVars, selVars, hierVars, cfgVars, callVars, regVars, trackVars,
                   image, current_view, view_slice, points_file, align_pc,
                   alignCallVars>>

\* The button Clear All.
on_clear_all ==
    /\ align_pc = "marking"
    /\ midline_points' = <<>>
    /\ UNCHANGED <<ontoVars, parseVars, fileVars, axisVars, refineVars, prepVars, selVars, hierVars, cfgVars, callVars, regVars, trackVars,
                   image, current_view, view_slice, points_file, align_pc,
                   alignCallVars>>

\* The button Done: the figure closes and mark_midline returns.
on_done ==
    /\ align_pc = "marking"
    /\ align_pc' = "done"
    /\ UNCHANGED <<ontoVars, parseVars, fileVars, axisVars, refineVars, prepVars, selVars, hierVars, cfgVars, callVars, regVars, trackVars,
                   image, midline_points, current_view, view_slice, points_file,
                   alignCallVars>>

save_midline_points ==
    /\ align_pc = "done"
    /\ points_file' = SaveFile(midline_points)
    /\ align_pc' = "saved"
    /\ UNCHANGED <<ontoVars, parseVars, fileVars, axisVars, refineVars, prepVars, selVars, hierVars, cfgVars, callVars, regVars, trackVars,
                   image, midline_points, current_view, view_slice,
                   alignCallVars>>

\* A new MidlineAligner on the same volume loads the file.
load_midline_points ==
    /\ align_pc = "saved"
    /\ midline_points' = LoadFile(points_file)
    /\ current_view' = "none"
    /\ view_slice' = 0
    /\ align_pc' = "loaded"
    /\ UNCHANGED <<ontoVars, parseVars, fileVars, axisVars, refineVars, prepVars, selVars, hierVars, cfgVars, callVars, regVars, trackVars,
                   image, points_file, alignCallVars>>

\* A call self.fit_midline_plane().
CallFitMidlinePlane ==
    /\ align_pc \in {"idle", "done", "saved", "loaded"}
    /\ \E u \in SmallestSingularVectors(Points3D(midline_points)) :
          LET r == fit_midline_plane(midline_points, u)
          IN IF r.exc
             THEN align_pc' = "raised" /\ plane_params' = NoFit
             ELSE align_pc' = "fitted" /\ plane_params' = r.ret
    /\ UNCHANGED <<ontoVars, parseVars, fileVars, axisVars, refineVars, prepVars, selVars, hierVars, cfgVars, callVars, regVars, trackVars,
                   image, midline_points, current_view, view_slice, points_file,
                   reverse, rotation_angle, align_transform, aligned>>

InitMark ==
    /\ id_to_info = [i \in {} |-> InfoRecord(i, None)]
    /\ HierIdle
    /\ NoParse
    /\ NoFiberFiles
    /\ NoVerifier
    /\ NoRefinement
    /\ NoResample
    /\ NoSelector
    /\ NoTracker
    /\ NoCall
    /\ NoRegistration
    /\ NoSession
    /\ image = MarkImage
    /\ midline_points = <<>>
    /\ current_view = "none"
    /\ view_slice = 0
    /\ points_file = <<>>
    /\ align_pc = "idle"
    /\ plane_params = NoFit
    /\ reverse = FALSE
    /\ rotation_angle = 0
    /\ align_transform = NoRotation
    /\ aligned = NoVolume

NextMark ==
    \/ mark_midline \/ update_slice \/ on_scroll \/ change_to_view \/ onclick
    \/ on_clear \/ on_clear_all \/ on_done \/ save_midline_points
    \/ load_midline_points \/ CallFitMidlinePlane

\* A marking session, the save and reload of its points, and the plane fit.
SpecMark == InitMark /\ [][NextMark]_vars

-----------------------------------------------------------------------------
(* Preprocessor.resample_image *)

\* Lines 84-87: a number stands for the same spacing in z, y and x.
SpacingTuple(s) == IF s.scalar THEN <<s.v, s.v, s.v>> ELSE s.v

\* numpy_to_sitk: an array of shape (Z, Y, X) is an image of size (X, Y, Z),
\* and lines 94-97 hand over the spacing as (sp[2], sp[1], sp[0]).
SitkSize(shape) == <<shape[3], shape[2], shape[1]>>

SitkSpacing(sp) == <<sp[3], sp[2], sp[1]>>

\* new_size with the target spacing read in the order (z, y, x).
NewSize_TargetUnpermuted(shape, orig, targ) ==
    [i \in 1..3 |-> PyRoundDiv(SitkSize(shape)[i] * SitkSpacing(orig)[i], targ[i])]

\* Lines 102-106: int(round(size[i] * (spacing[i] / target_spacing_mm[2 - i]))).
\* Both spacings are micrometres divided by 1000.0, so their quotient is the
\* quotient of the micrometre values.
NewSize(shape, orig, targ) ==
    [i \in 1..3 |->
        PyRoundDiv(SitkSize(shape)[i] * SitkSpacing(orig)[i], targ[4 - i])]

\* The interpolators take a continuous index n / d on one axis of length
\* size. It is inside the buffer from -1/2 up to, not including, size - 1/2.
InsideBuffer(n, d, size) == 2 * n < (2 * size - 1) * d

\* sitkNearestNeighbor: the index nearest to n / d, a half rounded up.
NearestIndex(n, d) == (2 * n + d) \div (2 * d)

\* The value of the image at the index (x, y, z).
PixelAt(img, x, y, z) == img.data[<<z, y, x>>]

\* The upper neighbour of the linear interpolator, kept inside the buffer.
UpperIndex(b, size) == IF b + 1 > size - 1 THEN size - 1 ELSE b + 1

\* sitkLinear at the continuous index (n[1]/d[1], n[2]/d[2], n[3]/d[3]): the
\* sum over the eight neighbours, each weighted by the opposite volume. The
\* result is the numerator over d[1] * d[2] * d[3].
LinearNumerator(img, n, d) ==
    LET size == SitkSize(img.shape)
        b == [a \in 1..3 |-> n[a] \div d[a]]
        r == [a \in 1..3 |-> n[a] % d[a]]
        Idx(a, c) == IF c = 0 THEN b[a] ELSE UpperIndex(b[a], size[a])
        W(a, c) == IF c = 0 THEN d[a] - r[a] ELSE r[a]
        Term(cx, cy, cz) ==
            W(1, cx) * W(2, cy) * W(3, cz)
                * PixelAt(img, Idx(1, cx), Idx(2, cy), Idx(3, cz))
    IN Term(0, 0, 0) + Term(1, 0, 0) + Term(0, 1, 0) + Term(1, 1, 0)
       + Term(0, 0, 1) + Term(1, 0, 1) + Term(0, 1, 1) + Term(1, 1, 1)

\* The interpolated value num / den in the image's pixel type: an integer
\* type drops the fraction, a floating type keeps the quotient.
ToPixelType(num, den, dtype) ==
    IF num % den = 0 \/ dtype # "float32" THEN num \div den
    ELSE [num |-> num, den |-> den]

\* Lines 109-125: the resample filter with the identity transform, the
\* image's origin and direction, the target spacing and the new size. The
\* output voxel o lies at o * target spacing, which is the continuous index
\* o * target / original of the input; outside the buffer the default pixel
\* value 0 is used.
OutputPixel(img, orig, targ, interp, o) ==
    LET size == SitkSize(img.shape)
        d == SitkSpacing(orig)
        n == [a \in 1..3 |-> o[a] * SitkSpacing(targ)[a]]
    IN IF \E a \in 1..3 : ~InsideBuffer(n[a], d[a], size[a]) THEN 0
       ELSE IF interp = "nearest"
            THEN PixelAt(img, NearestIndex(n[1], d[1]), NearestIndex(n[2], d[2]),
                         NearestIndex(n[3], d[3]))
            ELSE ToPixelType(LinearNumerator(img, n, d), d[1] * d[2] * d[3],
                             img.dtype)

\* resample_image(image_array, original_spacing, target_spacing,
\* interpolation): the array of the resampled image, in the source's type.
resample_image(img, os, ts, interp) ==
    LET orig == SpacingTuple(os)
        targ == SpacingTuple(ts)
        size == NewSize(img.shape, orig, targ)
        shape == <<size[3], size[2], size[1]>>
    IN [shape |-> shape, dtype |-> img.dtype,
        data |-> [v \in VoxelsOf(shape) |->
                     OutputPixel(img, orig, targ, interp, <<v[3], v[2], v[1]>>)]]

\* The volumes resampled here: (Z, Y, X) = (2, 2, 3), one voxel set, and one
\* volume in which every voxel has a value of its own.
ResampleShape == <<2, 2, 3>>

ResampleVolumes ==
    { [shape |-> ResampleShape, dtype |-> t[1],
       data |-> [v \in VoxelsOf(ResampleShape) |-> IF v = hot THEN t[2] ELSE 0]] :
        t \in {<<"uint8", 255>>, <<"float32", 7>>},
        hot \in VoxelsOf(ResampleShape) }
    \cup
    { [shape |-> ResampleShape, dtype |-> "uint16",
       data |-> [v \in VoxelsOf(ResampleShape) |->
                    100 * v[1] + 10 * v[2] + v[3] + 1]] }

\* Spacings in micrometres, isotropic as one number and anisotropic as
\* tuples (z, y, x).
ResampleSpacings ==
    { [scalar |-> TRUE, v |-> 1], [scalar |-> TRUE, v |-> 2],
      [scalar |-> FALSE, v |-> <<2, 1, 1>>],
      [scalar |-> FALSE, v |-> <<1, 2, 1>>],
      [scalar |-> FALSE, v |-> <<1, 1, 2>>] }

\* The interpolation arguments used; any other string selects the B-spline.
Interpolations == {"linear", "nearest"}

\* A call resample_image(image_array, original_spacing, target_spacing,
\* interpolation).
CallResampleImage ==
    /\ prep_pc = "idle"
    /\ \E os \in ResampleSpacings, ts \in ResampleSpacings,
          interp \in Interpolations :
        /\ original_spacing' = os
        /\ target_spacing' = ts
        /\ interpolation' = interp
        /\ resampled_array' = resample_image(image_array, os, ts, interp)
    /\ prep_pc' = "done"
    /\ UNCHANGED <<ontoVars, parseVars, fileVars, axisVars, refineVars, hierVars, cfgVars, callVars, regVars, trackVars,
                   alignVars, selVars, image_array>>

\* The caller has taken the resampled array.
ResampleReturn ==
    /\ prep_pc = "done"
    /\ prep_pc' = "idle"
    /\ original_spacing' = NoSpacing
    /\ target_spacing' = NoSpacing
    /\ interpolation' = "none"
    /\ resampled_array' = NoVolume
    /\ UNCHANGED <<ontoVars, parseVars, fileVars, axisVars, refineVars, hierVars, cfgVars, callVars, regVars, trackVars,
                   alignVars, selVars, image_array>>

InitResample ==
    /\ id_to_info = [i \in {} |-> InfoRecord(i, None)]
    /\ HierIdle
    /\ NoParse
    /\ NoFiberFiles
    /\ NoVerifier
    /\ NoRefinement
    /\ NoSelector
    /\ NoTracker
    /\ NoCall
    /\ NoRegistration
    /\ NoSession
    /\ NoAligner
    /\ image_array \in ResampleVolumes
    /\ original_spacing = NoSpacing
    /\ target_spacing = NoSpacing
    /\ interpolation = "none"
    /\ resampled_array = NoVolume
    /\ prep_pc = "idle"

NextResample == CallResampleImage \/ ResampleReturn

\* resample_image called on every volume with every pair of spacings.
SpecResample == InitResample /\ [][NextResample]_vars

-----------------------------------------------------------------------------
(* LandmarkSelector *)

\* The number of moving landmarks selected in one session.
MaxSelected == 2

\* The shapes (Z, Y, X) of the moving and the fixed image.
SelMovingShape == <<2, 2, 2>>

SelFixedShape == <<2, 2, 2>>

SelViews == {"Z", "Y", "X"}

\* get_max_slice(image, view) for an image of the given shape.
get_max_slice(shape, v) ==
    CASE v = "Z" -> shape[1] - 1
      [] v = "Y" -> shape[2] - 1
      [] v = "X" -> shape[3] - 1

\* onclick, lines 99-104 and 124-129: the landmark (Z, Y, X) of a click at
\* column x and row y of the slice shown.
ClickLandmark(v, slice_idx, x, y) ==
    CASE v = "Z" -> <<slice_idx, y, x>>
      [] v = "Y" -> <<y, slice_idx, x>>
      [] OTHER -> <<y, x, slice_idx>>

\* f"Point_{landmark_id}"
PointName(landmark_id) ==
    <<"P", "o", "i", "n", "t", "_">> \o DigitChars(landmark_id)

\* list.pop() of a non-empty list: the list without its last element.
Pop(list) == SubSeq(list, 1, Len(list) - 1)

\* The clicks (event.xdata, event.ydata) made, in half pixels.
SelClicks == {<<3, 1>>}

\* json.dump of a landmark list(lm): the array of its numbers as text.
JsonArray(lm) == [i \in 1..Len(lm) |-> DigitChars(lm[i])]

\* tuple(lm) of the array json.load parsed.
TupleOfJson(arr) == [i \in 1..Len(arr) |-> ParseInt(arr[i])]

\* save_landmarks: the JSON document written.
LandmarksJson(moving, fixed, names) ==
    [written |-> TRUE,
     moving_landmarks |-> [i \in 1..Len(moving) |-> JsonArray(moving[i])],
     fixed_landmarks |-> [i \in 1..Len(fixed) |-> JsonArray(fixed[i])],
     landmark_names |-> names,
     moving_name |-> "MicroCT", fixed_name |-> "Allen CCF",
     num_pairs |-> DigitChars(Len(fixed)),
     coordinate_convention |-> "Z, Y, X"]

\* load_landmarks: the lists read from the document.
LoadedMoving(file) ==
    [i \in 1..Len(file.moving_landmarks) |-> TupleOfJson(file.moving_landmarks[i])]

LoadedFixed(file) ==
    [i \in 1..Len(file.fixed_landmarks) |-> TupleOfJson(file.fixed_landmarks[i])]

\* select_landmarks up to plt.show(): the figure is built and shown.
select_landmarks ==
    /\ sel_pc = "idle"
    /\ sel_pc' = "selecting"
    /\ UNCHANGED <<ontoVars, parseVars, fileVars, axisVars, refineVars, hierVars, cfgVars, callVars, regVars, trackVars,
                   alignVars, prepVars, moving_plots, fixed_plots, sel_moving_landmarks,
                   sel_fixed_landmarks, landmark_names, sel_view, moving_slice,
                   fixed_slice, landmarks_file>>

\* onclick with the left button inside one of the two axes. A click on the
\* fixed image without an open moving landmark is refused.
sel_onclick ==
    /\ sel_pc = "selecting"
    /\ \E c \in SelClicks, on_moving \in BOOLEAN :
        LET x == IntOfHalves(c[1])
            y == IntOfHalves(c[2])
        IN IF on_moving
           THEN /\ Len(sel_moving_landmarks) < MaxSelected
                /\ sel_moving_landmarks' =
                       Append(sel_moving_landmarks,
                              ClickLandmark(sel_view, moving_slice, x, y))
                /\ moving_plots' =
                       Append(moving_plots, Len(sel_moving_landmarks) + 1)
                /\ UNCHANGED <<sel_fixed_landmarks, landmark_names,
                               fixed_plots>>
           ELSE /\ Len(sel_fixed_landmarks) < Len(sel_moving_landmarks)
                /\ sel_fixed_landmarks' =
                       Append(sel_fixed_landmarks,
                              ClickLandmark(sel_view, fixed_slice, x, y))
                /\ landmark_names' =
                       Append(landmark_names,
                              PointName(Len(sel_fixed_landmarks) + 1))
                /\ fixed_plots' =
                       Append(fixed_plots, Len(sel_fixed_landmarks) + 1)
                /\ UNCHANGED <<sel_moving_landmarks, moving_plots>>
    /\ UNCHANGED <<ontoVars, parseVars, fileVars, axisVars, refineVars,
                   hierVars, cfgVars, callVars, regVars, trackVars,
                   alignVars, prepVars, sel_view, moving_slice, fixed_slice,
                   landmarks_file, sel_pc>>

\* on_undo that leaves the label of the removed fixed landmark on the axes.
on_undo_KeepsFixedPlot ==
    /\ sel_pc = "selecting"
    /\ sel_moving_landmarks # <<>>
    /\ IF sel_fixed_landmarks # <<>>
       THEN /\ sel_moving_landmarks' = Pop(sel_moving_landmarks)
            /\ sel_fixed_landmarks' = Pop(sel_fixed_landmarks)
            /\ landmark_names' =
                   IF landmark_names # <<>> THEN Pop(landmark_names)
                   ELSE landmark_names
            /\ moving_plots' = Pop(moving_plots)
            /\ fixed_plots' = fixed_plots
       ELSE /\ sel_moving_landmarks' = Pop(sel_moving_landmarks)
            /\ moving_plots' = Pop(moving_plots)
            /\ UNCHANGED <<sel_fixed_landmarks, landmark_names, fixed_plots>>
    /\ UNCHANGED <<ontoVars, parseVars, fileVars, axisVars, refineVars,
                   hierVars, cfgVars, callVars, regVars, trackVars,
                   alignVars, prepVars, sel_view, moving_slice, fixed_slice,
                   landmarks_file, sel_pc>>

\* on_undo (lines 209-233): when both lists are non-empty the last element of
\* each is removed together with the last name and both plot entries; when
\* only moving landmarks exist the last of them and its plot entry. With no
\* landmark at all nothing changes.
on_undo ==
    /\ sel_pc = "selecting"
    /\ sel_moving_landmarks # <<>>
    /\ IF sel_fixed_landmarks # <<>>
       THEN /\ sel_moving_landmarks' = Pop(sel_moving_landmarks)
            /\ sel_fixed_landmarks' = Pop(sel_fixed_landmarks)
            /\ landmark_names' =
                   IF landmark_names # <<>> THEN Pop(landmark_names)
                   ELSE landmark_names
            /\ moving_plots' = Pop(moving_plots)
            /\ fixed_plots' = Pop(fixed_plots)
       ELSE /\ sel_moving_landmarks' = Pop(sel_moving_landmarks)
            /\ moving_plots' = Pop(moving_plots)
            /\ UNCHANGED <<sel_fixed_landmarks, landmark_names, fixed_plots>>
    /\ UNCHANGED <<ontoVars, parseVars, fileVars, axisVars, refineVars,
                   hierVars, cfgVars, callVars, regVars, trackVars,
                   alignVars, prepVars, sel_view, moving_slice, fixed_slice,
                   landmarks_file, sel_pc>>

\* The slider of the moving image moved to val.
update_moving_slice ==
    /\ sel_pc = "selecting"
    /\ \E val \in 0..get_max_slice(SelMovingShape, sel_view) :
        moving_slice' = val
    /\ UNCHANGED <<ontoVars, parseVars, fileVars, axisVars, refineVars, hierVars, cfgVars, callVars, regVars, trackVars,
                   alignVars, prepVars, moving_plots, fixed_plots, sel_moving_landmarks,
                   sel_fixed_landmarks, landmark_names, sel_view, fixed_slice,
                   landmarks_file, sel_pc>>

\* The slider of the fixed image moved to val.
update_fixed_slice ==
    /\ sel_pc = "selecting"
    /\ \E val \in 0..get_max_slice(SelFixedShape, sel_view) :
        fixed_slice' = val
    /\ UNCHANGED <<ontoVars, parseVars, fileVars, axisVars, refineVars, hierVars, cfgVars, callVars, regVars, trackVars,
                   alignVars, prepVars, moving_plots, fixed_plots, sel_moving_landmarks,
                   sel_fixed_landmarks, landmark_names, sel_view, moving_slice,
                   landmarks_file, sel_pc>>

\* The mouse wheel over one of the two axes.
sel_on_scroll ==
    /\ sel_pc = "selecting"
    /\ \E on_moving \in BOOLEAN, up \in BOOLEAN :
        LET shape == IF on_moving THEN SelMovingShape ELSE SelFixedShape
            max_slice == get_max_slice(shape, sel_view)
            old == IF on_moving THEN moving_slice ELSE fixed_slice
            new == IF up
                   THEN (IF old + 1 < max_slice THEN old + 1 ELSE max_slice)
                   ELSE (IF old - 1 > 0 THEN old - 1 ELSE 0)
        IN IF on_moving
           THEN moving_slice' = new /\ UNCHANGED fixed_slice
           ELSE fixed_slice' = new /\ UNCHANGED moving_slice
    /\ UNCHANGED <<ontoVars, parseVars, fileVars, axisVars, refineVars, hierVars, cfgVars, callVars, regVars, trackVars,
                   alignVars, prepVars, moving_plots, fixed_plots, sel_moving_landmarks,
                   sel_fixed_landmarks, landmark_names, sel_view,
                   landmarks_file, sel_pc>>

\* A view button: both slices go to the middle of the new axis.
change_view ==
    /\ sel_pc = "selecting"
    /\ \E new_view \in SelViews :
        /\ sel_view' = new_view
        /\ moving_slice' = get_max_slice(SelMovingShape, new_view) \div 2
        /\ fixed_slice' = get_max_slice(SelFixedShape, new_view) \div 2
    /\ UNCHANGED <<ontoVars, parseVars, fileVars, axisVars, refineVars, hierVars, cfgVars, callVars, regVars, trackVars,
                   alignVars, prepVars, moving_plots, fixed_plots, sel_moving_landmarks,
                   sel_fixed_landmarks, landmark_names, landmarks_file, sel_pc>>

\* The button Done: refused while a moving landmark is unpaired, otherwise
\* the figure is closed, plt.show() ends and select_landmarks returns.
sel_on_done ==
    /\ sel_pc = "selecting"
    /\ Len(sel_moving_landmarks) = Len(sel_fixed_landmarks)
    /\ sel_pc' = "returned"
    /\ UNCHANGED <<ontoVars, parseVars, fileVars, axisVars, refineVars, hierVars, cfgVars, callVars, regVars, trackVars,
                   alignVars, prepVars, moving_plots, fixed_plots, sel_moving_landmarks,
                   sel_fixed_landmarks, landmark_names, sel_view, moving_slice,
                   fixed_slice, landmarks_file>>

\* The figure is closed from its window: plt.show() ends whatever the lists
\* hold, and lines 429-433 report the unpaired landmarks and return.
close_figure ==
    /\ sel_pc = "selecting"
    /\ sel_pc' = "returned"
    /\ UNCHANGED <<ontoVars, parseVars, fileVars, axisVars, refineVars, hierVars, cfgVars, callVars, regVars, trackVars,
                   alignVars, prepVars, moving_plots, fixed_plots, sel_moving_landmarks,
                   sel_fixed_landmarks, landmark_names, sel_view, moving_slice,
                   fixed_slice, landmarks_file>>

\* selector.save_landmarks(landmark_file) after select_landmarks returned.
save_landmarks ==
    /\ sel_pc = "returned"
    /\ landmarks_file' =
           LandmarksJson(sel_moving_landmarks, sel_fixed_landmarks,
                         landmark_names)
    /\ sel_pc' = "saved"
    /\ UNCHANGED <<ontoVars, parseVars, fileVars, axisVars, refineVars, hierVars, cfgVars, callVars, regVars, trackVars,
                   alignVars, prepVars, moving_plots, fixed_plots, sel_moving_landmarks,
                   sel_fixed_landmarks, landmark_names, sel_view, moving_slice,
                   fixed_slice>>

\* selector.load_landmarks(landmark_file) on the file written.
load_landmarks ==
    /\ sel_pc = "saved"
    /\ landmarks_file.written
    /\ sel_moving_landmarks' = LoadedMoving(landmarks_file)
    /\ sel_fixed_landmarks' = LoadedFixed(landmarks_file)
    /\ landmark_names' = landmarks_file.landmark_names
    /\ sel_pc' = "loaded"
    /\ UNCHANGED <<ontoVars, parseVars, fileVars, axisVars, refineVars, hierVars, cfgVars, callVars, regVars, trackVars,
                   alignVars, prepVars, moving_plots, fixed_plots, sel_view, moving_slice, fixed_slice,
                   landmarks_file>>

\* The state LandmarkSelector.__init__ leaves.
InitSelect ==
    /\ id_to_info = [i \in {} |-> InfoRecord(i, None)]
    /\ HierIdle
    /\ NoParse
    /\ NoFiberFiles
    /\ NoVerifier
    /\ NoRefinement
    /\ NoResample
    /\ NoTracker
    /\ NoCall
    /\ NoRegistration
    /\ NoSession
    /\ NoAligner
    /\ sel_moving_landmarks = <<>>
    /\ sel_fixed_landmarks = <<>>
    /\ landmark_names = <<>>
    /\ sel_view = "Z"
    /\ moving_slice = SelMovingShape[1] \div 2
    /\ fixed_slice = SelFixedShape[1] \div 2
    /\ landmarks_file = NoFile
    /\ sel_pc = "idle"
    /\ moving_plots = <<>>
    /\ fixed_plots = <<>>

NextSelect ==
    \/ select_landmarks \/ sel_onclick \/ on_undo
    \/ update_moving_slice \/ update_fixed_slice \/ sel_on_scroll
    \/ change_view \/ sel_on_done \/ close_figure
    \/ save_landmarks \/ load_landmarks

\* One selection session, saved and loaded again.
SpecSelect == InitSelect /\ [][NextSelect]_vars

-----------------------------------------------------------------------------
(* C11 *)

\* C11: in DirectlyRegistered mode (use_registered) transform_point_to_ccf
\* returns the input voxel (z, y, x) unchanged and without raising, whether or
\* not a transform path was given to the constructor; no transform is held
\* and the try block is not entered.
C11_RegisteredReturnsInput ==
    (call = "transform_point_to_ccf" /\ use_registered) =>
        /\ ~raised
        /\ ret_point = args
        /\ transform = NoTransform
        /\ point_physical = <<>>

\* A registered tracker that was given a transform path has answered for a
\* voxel whose three coordinates differ.
C11_Witness ==
    /\ call = "transform_point_to_ccf"
    /\ use_registered
    /\ transform_path
    /\ args = <<0, 1, 2>>
    /\ ret_point = <<0, 1, 2>>

-----------------------------------------------------------------------------
(* C12, C13, C14 *)

\* C12: apply_alignment builds its rotation from the angle -theta when reverse
\* is False and +theta when reverse is True, theta being
\* plane_params['rotation_angle']; in both cases the axis is the PlaneFit axis
\* and the center is the PlaneFit centroid.
C12_RotationFromSignedAngle ==
    align_pc = "aligned" =>
        LET theta == plane_params.rotation_angle
            signed == IF reverse THEN theta ELSE -theta
        IN /\ rotation_angle = signed
           /\ align_transform.built =>
                 /\ align_transform.angle = signed
                 /\ align_transform.axis = plane_params.rotation_axis
                 /\ align_transform.matrix =
                        RotationMatrix(signed, plane_params.rotation_axis)
                 /\ "centroid" \in DOMAIN plane_params =>
                        align_transform.center = plane_params.centroid

\* A quarter turn about z was fitted; without reverse the volume was
\* resampled under the opposite quarter turn about the fitted centroid.
C12_Witness ==
    /\ align_pc = "aligned"
    /\ ~reverse
    /\ plane_params.rotation_angle = QuarterTurn
    /\ plane_params.rotation_axis = <<0, 0, 1>>
    /\ "centroid" \in DOMAIN plane_params
    /\ align_transform.built
    /\ align_transform.angle = -QuarterTurn
    /\ align_transform.center = [sum |-> <<1, 1, 0>>, n |-> 1]
    /\ aligned.data # image.data

\* C13: when the magnitude of the sign-corrected angle is below the threshold
\* 0.001 rad, apply_alignment resamples nothing and returns the source volume:
\* same voxels, same shape, same element type, for either value of reverse.
C13_NegligibleReturnsSource ==
    (align_pc = "aligned" /\ Abs(plane_params.rotation_angle) < NEGLIGIBLE_ANGLE)
        => /\ ~align_transform.built
           /\ aligned.shape = image.shape
           /\ aligned.dtype = image.dtype
           /\ aligned.data = image.data

\* An angle just below the threshold, reverse set, on a 16-bit volume with a
\* bright voxel.
C13_Witness ==
    /\ align_pc = "aligned"
    /\ reverse
    /\ plane_params.rotation_angle = -999
    /\ image.dtype = "uint16"
    /\ image.data[<<0, 1, 2>>] = 65535
    /\ aligned = image

\* The resampled float32 value of voxel v in the last call.
ResampledValue(v) ==
    Resample([w \in VoxelsOf(image.shape) |-> Float32(image.data[w])],
             image.shape, align_transform.matrix, align_transform.den,
             align_transform.center)[v]

\* C14: for every source element type apply_alignment returns a volume with
\* the source's shape and element type, and each value is the resampled value
\* clipped to the type's range: a value outside the range is replaced by the
\* nearest bound and never wrapped around.
C14_ClippedNeverWrapped ==
    align_pc = "aligned" =>
        /\ aligned.shape = image.shape
        /\ aligned.dtype = image.dtype
        /\ (align_transform.built /\ image.dtype # "float32") =>
              \A v \in VoxelsOf(image.shape) :
                  LET f == ResampledValue(v)
                      lo == TypeMin(image.dtype)
                      hi == TypeMax(image.dtype)
                  IN aligned.data[v] =
                        IF ~FloatLE(f, hi) THEN hi
                        ELSE IF ~FloatGE(f, lo) THEN lo
                        ELSE f.m * (2 ^ f.e)

-----------------------------------------------------------------------------
(* C15, C16, C17, C18 *)

\* The points are not all on one line.
NotCollinear(pts) ==
    \E p \in pts, q \in pts, r \in pts : Cross(p, q, r) # <<0, 0, 0>>

\* The cross product of the unit vector u and +X has magnitude at most 1e-6.
CrossNegligible(u) == NormYZ(u) = 0 \/ u.d \div NormYZ(u) >= 1000000

\* C15: for marked points that all lie on a plane x = c, on at least 2 slices
\* and not all on one line, fit_midline_plane returns the normal (1, 0, 0),
\* takes the no-rotation branch and reports rotation_angle 0; and whenever
\* the cross product of the oriented normal and +X has magnitude at most
\* 1e-6 the reported angle is exactly 0.
C15_PlaneXGivesNoRotation ==
    align_pc = "fitted" =>
        /\ ( /\ \A p \in plane_params.points_3d, q \in plane_params.points_3d :
                    p[1] = q[1]
             /\ NotCollinear(plane_params.points_3d) )
           => /\ plane_params.normal = [v |-> <<1, 0, 0>>, d |-> 1]
              /\ plane_params.rotation_axis = <<0, 0, 1>>
              /\ plane_params.rotation_angle = 0
        /\ CrossNegligible(plane_params.normal) => plane_params.rotation_angle = 0

\* Three points of the plane x = 4, marked on two slices, have been fitted.
C15_Witness ==
    /\ align_pc = "fitted"
    /\ plane_params.points_3d = {<<4, 0, 0>>, <<4, 3, 0>>, <<4, 0, 1>>}
    /\ Cardinality(DOMAIN midline_points) = 2
    /\ plane_params.rotation_angle = 0

\* C16: in the non-degenerate case the rotation fit_midline_plane finally
\* reports maps the oriented normal onto +X: the rotated normal has dot
\* product 1 with +X, which is never less than the normal's own.
C16_RotationMapsNormalToX ==
    (align_pc = "fitted" /\ ~CrossNegligible(plane_params.normal)) =>
        LET n == plane_params.normal
            m == TrigDen(plane_params.rotation_angle)
            rotated == MatVec(RotationMatrix(plane_params.rotation_angle,
                                             plane_params.rotation_axis), n.v)
        IN /\ rotated[1] = m * n.d
           /\ rotated[2] = 0
           /\ rotated[3] = 0
           /\ rotated[1] >= m * n.v[1]

\* The plane 3x + 4y = 12 has been fitted: the normal (3, 4, 0) / 5 is turned
\* by arccos(3/5) about -z.
C16_Witness ==
    /\ align_pc = "fitted"
    /\ plane_params.normal = [v |-> <<3, 4, 0>>, d |-> 5]
    /\ plane_params.rotation_angle = ArcCos35
    /\ plane_params.rotation_axis = <<0, 0, -1>>
    /\ NotCollinear(plane_params.points_3d)

\* The (view, slice) combinations that hold a marked point.
MarkedCombinations == { e[1] : e \in AllClicks(midline_points) }

\* C17: fit_midline_plane raises and produces no PlaneFit whenever the marked
\* points span fewer than 2 distinct (view, slice) combinations, and passes
\* the check with points on 2 or more, in every state reached by clicks,
\* Clear Slice, Clear All and load_midline_points.
C17_RaisesBelowTwoCombinations ==
    /\ align_pc = "raised" =>
          /\ Cardinality(MarkedCombinations) < 2
          /\ plane_params = NoFit
    /\ align_pc = "fitted" =>
          /\ Cardinality(MarkedCombinations) >= 2
          /\ plane_params.fitted

\* Two points on one slice, saved and loaded again, were refused.
C17_Witness ==
    /\ align_pc = "raised"
    /\ points_file # <<>>
    /\ current_view = "none"
    /\ Cardinality(MarkedCombinations) = 1
    /\ Cardinality(AllClicks(midline_points)) = 2

\* The value of image[z][y][x] for a point (x, y, z), -1 outside the volume.
ValueAt(p) ==
    IF <<p[3], p[2], p[1]>> \in DOMAIN image.data
    THEN image.data[<<p[3], p[2], p[1]>>]
    ELSE -1

\* The value shown at the click e of midline_points.
ValueClicked(e) ==
    get_slice_and_info(image, e[1][1], e[1][2])
        [midline_points[e[1]][e[2]][1]][midline_points[e[1]][e[2]][2]]

\* C18: for every view, slice index s and click (row, col), the point
\* (x, y, z) fit_midline_plane builds names the clicked voxel: image[z][y][x]
\* is the element [row][col] of the slice get_slice_and_info(view, s) showed.
C18_PointNamesClickedVoxel ==
    /\ \A e \in AllClicks(midline_points) :
          ValueAt(ClickPoint(midline_points, e)) = ValueClicked(e)
    /\ align_pc = "fitted" =>
          { ValueAt(p) : p \in plane_params.points_3d }
              = { ValueClicked(e) : e \in AllClicks(midline_points) }

\* One click in each view, each on another voxel, has been fitted.
C18_Witness ==
    /\ align_pc = "fitted"
    /\ { e[1][1] : e \in AllClicks(midline_points) } = Views
    /\ Cardinality(plane_params.points_3d) = 3

-----------------------------------------------------------------------------
(* C19 *)

-----------------------------------------------------------------------------
(* C20 *)

\* load_landmarks leaves the three lists as save_landmarks found them.
LoadRestoresLists ==
    /\ sel_moving_landmarks' = sel_moving_landmarks
    /\ sel_fixed_landmarks' = sel_fixed_landmarks
    /\ landmark_names' = landmark_names

\* C20: whatever state the selector is in when select_landmarks returns,
\* save_landmarks followed by load_landmarks restores moving_landmarks,
\* fixed_landmarks and landmark_names with the same values in the same order,
\* and the loaded moving and fixed lists have equal length, so that the i-th
\* moving landmark is paired with the i-th fixed landmark.
C20_SaveLoadKeepsPairs ==
    [][load_landmarks =>
          /\ LoadRestoresLists
          /\ Len(sel_moving_landmarks') = Len(sel_fixed_landmarks')]_vars

-----------------------------------------------------------------------------
(* C24 *)

\* Shape (Z, Y, X) of the fixed image, which the registered volume takes.
RegisteredShape == <<3, 3, 3>>

\* landmark_registration.py:605-611: the resampler has the fixed image as
\* reference and landmark_transform as transform, so the voxel q of the
\* registered volume takes the moving image's value at the physical point
\* landmark_transform maps q's physical point to.
SampledFrom(q) ==
    TransformPoint(landmark_transform,
                   RegIndexToPhysical(q, fixed_spacing)).ret

\* C24: with the transform T that landmark_registration returned, the
\* reference voxel that transform_point_to_ccf(p) returns in NeedsTransform
\* mode is the voxel of the registered volume whose value was sampled from
\* the subject voxel p.
C24_PointMappingAgreesWithResampler ==
    (/\ reg_pc = "done"
     /\ resampled
     /\ call = "transform_point_to_ccf"
     /\ ~raised
     /\ transform = landmark_transform
     /\ ~use_registered) =>
        \A q \in VoxelsOf(RegisteredShape) :
            SampledFrom(q) = RegIndexToPhysical(args, moving_spacing)
                => ret_point = q

-----------------------------------------------------------------------------
(* C30 *)

\* NeedsTransform mode with nothing to map with: no transform is held (no
\* path was given or the file could not be read), or TransformPoint raises.
Unmapped ==
    /\ ~use_registered
    /\ (~transform.loaded \/ transform.fails)

\* The disposition of the voxel c taken as a reference-space coordinate.
DirectDisposition(c) ==
    get_region_at_point(id_to_info, TRUE, NoTransform, ccf_annotation, spacing,
                        c[1], c[2], c[3]).ret

\* C30: in NeedsTransform mode without a usable transform,
\* transform_point_to_ccf returns the input voxel unchanged and
\* get_region_at_point classifies that voxel as if it were a reference-space
\* coordinate: nothing is raised, and the Error disposition is returned only
\* for a voxel whose stored value is no integer.
C30_UnmappedClassifiedDirectly ==
    (call = "get_region_at_point" /\ ccf_annotation.loaded /\ Unmapped) =>
        /\ ~raised
        /\ ret_point = args
        /\ ret_region = DirectDisposition(args)
        /\ ret_region.acronym = "ERR" => ccf_annotation.data[args] = NaN

\* A tracker that was given a transform path and has no usable transform:
\* the clicked voxel itself was looked up to a region with its ancestry.
C30_Witness ==
    /\ call = "get_region_at_point"
    /\ Unmapped
    /\ transform_path
    /\ ccf_annotation.loaded
    /\ ret_point = args
    /\ ret_region.id > 0
    /\ ret_region.hierarchy # <<>>
    /\ ret_region.ccf_coords = args

-----------------------------------------------------------------------------
(* C28 *)

\* Both ends of the current fiber are marked.
BothMarked == Truthy(current_fiber.top) /\ Truthy(current_fiber.bottom)

\* C28: in every state of a tracking session the current fiber's bottom is
\* set only if its top is set and the key region_info is present exactly when
\* the bottom is set; a click while both are set changes nothing; the fiber
\* list grows only by Next Fiber with both ends set, which appends the
\* current fiber and resets it to top = bottom = None.
C28_CurrentFiberWellFormed ==
    /\ [](/\ Truthy(current_fiber.bottom) => Truthy(current_fiber.top)
          /\ ("region_info" \in DOMAIN current_fiber)
                <=> Truthy(current_fiber.bottom))
    /\ [][(BothMarked /\ on_click) => UNCHANGED <<current_fiber, fibers>>]_vars
    /\ [][Len(fibers') > Len(fibers) =>
              /\ BothMarked
              /\ fibers' = Append(fibers, FiberData(current_fiber, Len(fibers)))
              /\ current_fiber' = [top |-> <<>>, bottom |-> <<>>]]_vars

\* A fiber has been saved by Next Fiber and the next one has both ends
\* marked, at two different voxels, the bottom not where the saved one is.
C28_Witness ==
    /\ Len(fibers) = 1
    /\ BothMarked
    /\ "region_info" \in DOMAIN current_fiber
    /\ current_fiber.top # current_fiber.bottom
    /\ fibers[1].bottom # current_fiber.bottom

-----------------------------------------------------------------------------
(* C25 *)

\* The last moving landmark has no fixed partner yet.
MovingWaiting == Len(sel_moving_landmarks) > Len(sel_fixed_landmarks)

\* The complete pairs (moving[i], fixed[i]) of the two lists.
CompletePairs(moving, fixed) ==
    [i \in 1..(IF Len(moving) < Len(fixed) THEN Len(moving) ELSE Len(fixed))
        |-> <<moving[i], fixed[i]>>]

\* C25: on_undo removes only the most recent entry: an unpaired last moving
\* landmark is removed alone and every complete pair stays as it was;
\* otherwise exactly the last complete pair is removed.
C25_UndoRemovesMostRecentOnly ==
    [][on_undo =>
        IF MovingWaiting
        THEN /\ sel_moving_landmarks' = Pop(sel_moving_landmarks)
             /\ sel_fixed_landmarks' = sel_fixed_landmarks
             /\ CompletePairs(sel_moving_landmarks', sel_fixed_landmarks')
                   = CompletePairs(sel_moving_landmarks, sel_fixed_landmarks)
        ELSE /\ sel_moving_landmarks' = Pop(sel_moving_landmarks)
             /\ sel_fixed_landmarks' = Pop(sel_fixed_landmarks)]_vars

-----------------------------------------------------------------------------
(* C26 *)

\* C26: the fixed list is never longer than the moving list, every fixed
\* landmark has a name, every landmark has its plot entry, and the fixed
\* list grows only while a moving landmark waits for its partner.
C26_ListsAndPlotsInStep ==
    /\ [](/\ Len(sel_fixed_landmarks) <= Len(sel_moving_landmarks)
          /\ Len(landmark_names) = Len(sel_fixed_landmarks)
          /\ Len(moving_plots) = Len(sel_moving_landmarks)
          /\ Len(fixed_plots) = Len(sel_fixed_landmarks))
    /\ [][Len(sel_fixed_landmarks') > Len(sel_fixed_landmarks)
            => MovingWaiting]_vars
    /\ [][(sel_pc = "selecting" /\ sel_pc' = "selecting" /\ ~MovingWaiting)
            => Len(sel_fixed_landmarks') <= Len(sel_fixed_landmarks)]_vars

\* One complete pair and a second moving landmark waiting, each with its
\* plot entry, while the window is open.
C26_Witness ==
    /\ sel_pc = "selecting"
    /\ Len(sel_moving_landmarks) = 2
    /\ Len(sel_fixed_landmarks) = 1
    /\ moving_plots = <<1, 2>>
    /\ fixed_plots = <<1>>
    /\ landmark_names = <<PointName(1)>>

-----------------------------------------------------------------------------
(* FiberTracker: sessions and the files between them *)

\* The JSON number json.dump writes for an int, and the int json.load reads.
JsonNumber(n) == DigitChars(n)

\* save_fiber_data (lines 809-830): one dict per fiber, in list order. The
\* region fields are strings, None or lists, which json gives back as they
\* were; ccf_coords comes back as a list.
FiberDict(fiber) ==
    [fiber_id |-> JsonNumber(fiber.id),
     top_z |-> JsonNumber(fiber.top[1]),
     top_y |-> JsonNumber(fiber.top[2]),
     top_x |-> JsonNumber(fiber.top[3]),
     bottom_z |-> JsonNumber(fiber.bottom[1]),
     bottom_y |-> JsonNumber(fiber.bottom[2]),
     bottom_x |-> JsonNumber(fiber.bottom[3]),
     region_id |-> fiber.region_id,
     region_name |-> fiber.region_name,
     region_acronym |-> fiber.region_acronym,
     region_hierarchy |-> fiber.region_hierarchy,
     ccf_coords |-> fiber.ccf_coords]

save_fiber_data(fs) ==
    [written |-> TRUE, data |-> [i \in 1..Len(fs) |-> FiberDict(fs[i])]]

\* load_previous_work (lines 334-348): the fiber built from one dict; the
\* id is the fiber_id of the file.
LoadedFiber(d) ==
    LET fiber_id == ParseInt(d.fiber_id)
    IN [id |-> fiber_id,
        top |-> <<ParseInt(d.top_z), ParseInt(d.top_y), ParseInt(d.top_x)>>,
        bottom |-> <<ParseInt(d.bottom_z), ParseInt(d.bottom_y),
                     ParseInt(d.bottom_x)>>,
        color |-> fiber_id % 10,
        region_id |-> d.region_id,
        region_name |-> d.region_name,
        region_acronym |-> d.region_acronym,
        region_hierarchy |-> d.region_hierarchy,
        ccf_coords |-> d.ccf_coords]

load_previous_work(fs, saved_data) ==
    fs \o [i \in 1..Len(saved_data) |-> LoadedFiber(saved_data[i])]

\* The window of a session is open.
Tracking == track_pc \in {"fresh", "continued"}

\* FiberTracker.__init__ (lines 196-210) with check_previous_work (248-332):
\* the final file is preferred over the progress file; the answer c loads
\* the fibers of the file, r starts with none, q ends the process.
check_previous_work ==
    /\ track_pc \in {"none", "finished"}
    /\ current_slice' = ImageShape[1] \div 2
    /\ current_fiber' = [top |-> <<>>, bottom |-> <<>>]
    /\ LET load_file == IF final_file.written THEN final_file
                        ELSE progress_file
       IN IF ~load_file.written
          THEN fibers' = <<>> /\ track_pc' = "fresh"
          ELSE \E response \in {"c", "r", "q"} :
                 IF response = "c"
                 THEN /\ fibers' = load_previous_work(<<>>, load_file.data)
                      /\ track_pc' = "continued"
                 ELSE IF response = "r"
                 THEN fibers' = <<>> /\ track_pc' = "fresh"
                 ELSE fibers' = <<>> /\ track_pc' = "finished"
    /\ UNCHANGED <<ontoVars, parseVars, axisVars, refineVars, prepVars,
                   selVars, alignVars, hierVars, cfgVars, callVars, regVars,
                   progress_file, final_file>>

\* save_progress (lines 768-776).
save_progress ==
    /\ Tracking
    /\ IF Len(fibers) = 0
       THEN UNCHANGED progress_file
       ELSE progress_file' = save_fiber_data(fibers)
    /\ UNCHANGED <<ontoVars, parseVars, axisVars, refineVars, prepVars,
                   selVars, alignVars, hierVars, cfgVars, callVars, regVars,
                   trackVars, final_file, track_pc>>

\* finish_tracking (lines 778-807): a fiber with both ends marked is saved
\* first when the answer is y; with no fiber nothing is written.
finish_tracking ==
    /\ Tracking
    /\ \E response \in {"y", "n"} :
        LET unsaved == Truthy(current_fiber.top) /\ Truthy(current_fiber.bottom)
            save == unsaved /\ response = "y"
            final == IF save
                     THEN Append(fibers, FiberData(current_fiber, Len(fibers)))
                     ELSE fibers
        IN /\ save => Len(fibers) < MaxFibers
           /\ fibers' = final
           /\ current_fiber' = IF save THEN [top |-> <<>>, bottom |-> <<>>]
                               ELSE current_fiber
           /\ final_file' = IF Len(final) = 0 THEN final_file
                            ELSE save_fiber_data(final)
    /\ track_pc' = "finished"
    /\ UNCHANGED <<ontoVars, parseVars, axisVars, refineVars, prepVars,
                   selVars, alignVars, hierVars, cfgVars, callVars, regVars,
                   current_slice, progress_file>>

\* The window is closed without Finish: plt.show() (line 558) returns.
close_tracker ==
    /\ Tracking
    /\ track_pc' = "finished"
    /\ UNCHANGED <<ontoVars, parseVars, axisVars, refineVars, prepVars,
                   selVars, alignVars, hierVars, cfgVars, callVars, regVars,
                   trackVars, progress_file, final_file>>

\* The clicks of these sessions mark a fiber top in column 0.
TopInFirstColumn == current_fiber'.top \in {<<>>, <<0, 0, 0>>}

\* A registered image with one annotation volume and one ontology; no
\* tracker has run and the output directory is empty.
InitFibers ==
    /\ id_to_info = [i \in {1, 2, ROOT_ID} |->
          InfoRecord(i, IF i = 1 THEN 2 ELSE IF i = 2 THEN ROOT_ID ELSE None)]
    /\ HierIdle
    /\ NoParse
    /\ NoFiberFiles
    /\ NoVerifier
    /\ NoRefinement
    /\ NoResample
    /\ NoSelector
    /\ NoAligner
    /\ TrackerConfig({}, SessionAnnotations)
    /\ use_registered
    /\ ~transform_path
    /\ ccf_annotation.data[<<0, 0, 0>>] = 1
    /\ spacing = 1
    /\ ref_spacing = 1
    /\ NoCall
    /\ NoRegistration
    /\ NoSession

NextFibers ==
    \/ check_previous_work
    \/ Tracking /\ on_click /\ TopInFirstColumn
    \/ Tracking /\ undo_current
    \/ Tracking /\ undo_last_fiber
    \/ Tracking /\ next_fiber
    \/ save_progress
    \/ finish_tracking
    \/ close_tracker

\* Tracking sessions one after the other on one output directory.
SpecFibers == InitFibers /\ [][NextFibers]_vars

-----------------------------------------------------------------------------
(* C29 *)

\* The i-th element of a list of fibers has id i, counted from 0.
IdsFromZero(fs) == \A i \in 1..Len(fs) : fs[i].id = i - 1

\* The same for the dicts of a file that was written.
FileIdsFromZero(f) ==
    f.written => \A i \in 1..Len(f.data) : ParseInt(f.data[i].fiber_id) = i - 1

\* C29: through Next Fiber, Undo Last Fiber, saving and reloading, the i-th
\* fiber of the list and of each file has id i, so the ids are unique and
\* contiguous from 0.
C29_FiberIdsContiguous ==
    /\ IdsFromZero(fibers)
    /\ FileIdsFromZero(progress_file)
    /\ FileIdsFromZero(final_file)

\* A session that loaded the one fiber of the final file and saved a second
\* fiber after it.
C29_Witness ==
    /\ track_pc = "continued"
    /\ final_file.written
    /\ Len(final_file.data) = 1
    /\ Len(fibers) = 2
    /\ fibers[2].id = 1

-----------------------------------------------------------------------------
(* AllenCCFOntology.parse_ontology *)

\* The values json.load gives: a dict (its keys and values as a function
\* d), a list of such values, or something else.
Dict(d) == [kind |-> "dict", d |-> d]

List(items) == [kind |-> "list", items |-> items]

\* node.get(key, default)
Get(d, key, default) == IF key \in DOMAIN d THEN d[key] ELSE default

\* f'Region_{struct_id}'
DefaultName(struct_id) == "Region_" \o ToString(struct_id)

\* The branch `if 'id' in node` with the default name stored for every node.
StoreNode_DefaultNameOnly(d, st) ==
    LET struct_id == d["id"]
        acronym == Get(d, "acronym", "")
        name == Get(d, "name", "")
        info == [id |-> struct_id,
                 name |-> DefaultName(struct_id),
                 acronym |-> Get(d, "acronym", ""),
                 parent_id |-> Get(d, "parent_structure_id", None),
                 color_hex |-> Get(d, "color_hex_triplet", "FFFFFF"),
                 depth |-> Get(d, "depth", 0)]
    IN [id_to_info |-> (struct_id :> info) @@ st.id_to_info,
        acronym_to_id |-> IF acronym # ""
                          THEN (acronym :> struct_id) @@ st.acronym_to_id
                          ELSE st.acronym_to_id,
        name_to_id |-> IF name # ""
                       THEN (name :> struct_id) @@ st.name_to_id
                       ELSE st.name_to_id]

\* The branch `if 'id' in node` (lines 67-84): the record stored under the
\* id, and the entries of the two indices for a non-empty acronym and name.
StoreNode(d, st) ==
    LET struct_id == d["id"]
        acronym == Get(d, "acronym", "")
        name == Get(d, "name", "")
        info == [id |-> struct_id,
                 name |-> Get(d, "name", DefaultName(struct_id)),
                 acronym |-> Get(d, "acronym", ""),
                 parent_id |-> Get(d, "parent_structure_id", None),
                 color_hex |-> Get(d, "color_hex_triplet", "FFFFFF"),
                 depth |-> Get(d, "depth", 0)]
    IN [id_to_info |-> (struct_id :> info) @@ st.id_to_info,
        acronym_to_id |-> IF acronym # ""
                          THEN (acronym :> struct_id) @@ st.acronym_to_id
                          ELSE st.acronym_to_id,
        name_to_id |-> IF name # ""
                       THEN (name :> struct_id) @@ st.name_to_id
                       ELSE st.name_to_id]

RECURSIVE parse_structure_tree(_, _)
RECURSIVE ParseEach(_, _)

\* parse_structure_tree (lines 64-94) on node, from the indices st: a dict
\* is stored when it has an id and its children are parsed whether it has
\* one or not; the items of a list are parsed in order; anything else is
\* passed over.
parse_structure_tree(node, st) ==
    IF node.kind = "dict"
    THEN LET stored == IF "id" \in DOMAIN node.d
                       THEN StoreNode(node.d, st) ELSE st
         IN IF "children" \in DOMAIN node.d
            THEN ParseEach(node.d["children"], stored)
            ELSE stored
    ELSE IF node.kind = "list"
    THEN ParseEach(node.items, st)
    ELSE st

\* `for item in items: parse_structure_tree(item)`
ParseEach(items, st) ==
    IF items = <<>> THEN st
    ELSE ParseEach(Tail(items), parse_structure_tree(Head(items), st))

\* The indices parse_ontology (lines 61-99) leaves, starting from the empty
\* ones of __init__: parsing starts at data['msg'] when data has that key.
\* `'msg' in data` on a list of nodes finds no element equal to the string.
ParsedIndices(data) ==
    LET empty == [id_to_info |-> <<>>, acronym_to_id |-> <<>>,
                  name_to_id |-> <<>>]
    IN IF data.kind = "dict" /\ "msg" \in DOMAIN data.d
       THEN parse_structure_tree(data.d["msg"], empty)
       ELSE parse_structure_tree(data, empty)

\* What a node of the trees below carries besides its position: whether it
\* has an id, its name and its acronym (absent, empty or a text).
NodeChoices(names, acronyms) ==
    [has_id : BOOLEAN, name : names, acronym : acronyms]

\* The dict of the node at position i: its id is i, so no two nodes share
\* an id.
NodeDict(i, c, parent, children) ==
    (IF c.has_id THEN "id" :> i ELSE <<>>)
    @@ (IF c.name # <<>> THEN "name" :> c.name[1] ELSE <<>>)
    @@ (IF c.acronym # <<>> THEN "acronym" :> c.acronym[1] ELSE <<>>)
    @@ (IF parent # None THEN "parent_structure_id" :> parent ELSE <<>>)
    @@ (IF children # <<>> THEN "children" :> children[1] ELSE <<>>)

\* A root with one child and one grandchild; the grandchild has no key
\* children or an empty list.
TreeOf(c1, c2, c3, leaf) ==
    LET p1 == IF c1.has_id THEN 1 ELSE None
        p2 == IF c2.has_id THEN 2 ELSE None
        n3 == Dict(NodeDict(3, c3, p2, leaf))
        n2 == Dict(NodeDict(2, c2, p1, << <<n3>> >>))
    IN Dict(NodeDict(1, c1, None, << <<n2>> >>))

\* The documents a tree is parsed from: the tree itself, the tree under
\* 'msg', a list holding the tree and a value that is no node, and that
\* list under 'msg'.
DocumentsOf(t) ==
    LET l == List(<<t, [kind |-> "other"]>>)
    IN {t, Dict("msg" :> t), l, Dict("msg" :> l)}

\* The names and acronyms of the nodes at the three positions.
NamesAt(i) == IF i = 3 THEN {<<>>, <<"A">>, <<"B">>}
              ELSE {<<>>, <<"">>, <<"A">>}

AcronymsAt(i) == IF i = 1 THEN {<<>>, <<"">>, <<"a">>} ELSE {<<>>, <<"a">>}

\* parse_ontology(data) on the object __init__ made.
parse_ontology ==
    /\ onto_pc = "idle"
    /\ LET st == ParsedIndices(onto_data)
       IN /\ id_to_info' = st.id_to_info
          /\ acronym_to_id' = st.acronym_to_id
          /\ name_to_id' = st.name_to_id
    /\ onto_pc' = "parsed"
    /\ UNCHANGED <<fileVars, axisVars, refineVars, hierVars, cfgVars,
                   callVars, regVars, trackVars, alignVars, prepVars, selVars,
                   onto_data>>

\* AllenCCFOntology.__init__ (lines 26-28) and the document read.
InitParse ==
    /\ id_to_info = <<>>
    /\ acronym_to_id = <<>>
    /\ name_to_id = <<>>
    /\ \E c1 \in NodeChoices(NamesAt(1), AcronymsAt(1)),
          c2 \in NodeChoices(NamesAt(2), AcronymsAt(2)),
          c3 \in NodeChoices(NamesAt(3), AcronymsAt(3)),
          leaf \in {<<>>, << <<>> >>} :
        onto_data \in DocumentsOf(TreeOf(c1, c2, c3, leaf))
    /\ onto_pc = "idle"
    /\ HierIdle
    /\ NoFiberFiles
    /\ NoVerifier
    /\ NoRefinement
    /\ NoResample
    /\ NoSelector
    /\ NoAligner
    /\ NoTracker
    /\ NoCall
    /\ NoRegistration
    /\ NoSession

NextParse == parse_ontology

SpecParse == InitParse /\ [][NextParse]_vars

-----------------------------------------------------------------------------
(* C23 *)

RECURSIVE DictsOf(_)
RECURSIVE DictsOfEach(_)

\* Every dict of a document, at any depth.
DictsOf(node) ==
    IF node.kind = "dict"
    THEN {node.d}
         \cup (IF "children" \in DOMAIN node.d
               THEN DictsOfEach(node.d["children"]) ELSE {})
         \cup (IF "msg" \in DOMAIN node.d THEN DictsOf(node.d["msg"]) ELSE {})
    ELSE IF node.kind = "list"
    THEN DictsOfEach(node.items)
    ELSE {}

DictsOfEach(items) ==
    IF items = <<>> THEN {}
    ELSE DictsOf(Head(items)) \cup DictsOfEach(Tail(items))

\* The ids of the nodes of a document that have one.
NodeIds(data) == { d["id"] : d \in {e \in DictsOf(data) : "id" \in DOMAIN e} }

-----------------------------------------------------------------------------
(* AxisVerifier *)

\* Shapes (Z, Y, X) of the images verified: a cube and a volume whose three
\* sides differ.
VerifiedShapes == { <<2, 2, 2>>, <<1, 2, 3>> }

\* An image array as far as the verifier changes it: its shape, the axis of
\* the original now at each position, and whether that position is reversed.
AsLoaded(shape) ==
    [shape |-> shape, axes |-> <<1, 2, 3>>, flipped |-> <<FALSE, FALSE, FALSE>>]

\* np.transpose(img, axes): position k of the result is position axes[k]
\* of img.
Transpose(img, axes) ==
    [shape |-> [k \in 1..3 |-> img.shape[axes[k]]],
     axes |-> [k \in 1..3 |-> img.axes[axes[k]]],
     flipped |-> [k \in 1..3 |-> img.flipped[axes[k]]]]

\* np.flip(img, axis)
Flip(img, axis) == [img EXCEPT !.flipped[axis] = ~@]

\* axes = [0, 1, 2] with axis1 and axis2 exchanged (positions counted from 1).
SwappedAxes(axis1, axis2) ==
    [k \in 1..3 |-> IF k = axis1 THEN axis2 ELSE IF k = axis2 THEN axis1 ELSE k]

\* The slices dict for the middle of each axis (lines 71-75).
MiddleSlices(img) ==
    [coronal |-> img.shape[1] \div 2, axial |-> img.shape[2] \div 2,
     sagittal |-> img.shape[3] \div 2]

\* update_display (lines 77-125): the three indexings it makes, as the
\* shape of corrected_image and the indices used on it.
update_display(img, sl) == [shape |-> img.shape, slices |-> sl]

\* Lines 200-218 and 229-246: with img already in place, each slider gets
\* its new range and set_val(middle), which calls the slider's callback
\* (the slice of that view is set and the display updated) before the next
\* slider is touched; then the three slices are assigned and the display is
\* updated once more. An exception of a callback is printed by the event
\* loop and the handler goes on.
RecentreSliders(img, sl) ==
    LET mid == MiddleSlices(img)
        s1 == [sl EXCEPT !.coronal = mid.coronal]
        s2 == [s1 EXCEPT !.axial = mid.axial]
        s3 == [s2 EXCEPT !.sagittal = mid.sagittal]
    IN [slices |-> mid,
        reads |-> <<update_display(img, s1), update_display(img, s2),
                    update_display(img, s3), update_display(img, mid)>>]

\* verify_and_correct_axes up to plt.show(): the slices start in the middle
\* and the display is drawn once.
verify_and_correct_axes ==
    /\ av_pc = "idle"
    /\ slices' = MiddleSlices(corrected_image)
    /\ displayed' = <<update_display(corrected_image,
                                     MiddleSlices(corrected_image))>>
    /\ av_pc' = "shown"
    /\ UNCHANGED <<ontoVars, parseVars, fileVars, refineVars, hierVars,
                   cfgVars, callVars, regVars, trackVars, alignVars, prepVars,
                   selVars, av_image, corrected_image>>

\* The coronal slider is dragged to val, a value of its range.
update_coronal ==
    /\ av_pc = "shown"
    /\ \E val \in 0..(corrected_image.shape[1] - 1) :
        /\ slices' = [slices EXCEPT !.coronal = val]
        /\ displayed' = <<update_display(corrected_image, slices')>>
    /\ UNCHANGED <<ontoVars, parseVars, fileVars, refineVars, hierVars,
                   cfgVars, callVars, regVars, trackVars, alignVars, prepVars,
                   selVars, av_image, corrected_image, av_pc>>

update_axial ==
    /\ av_pc = "shown"
    /\ \E val \in 0..(corrected_image.shape[2] - 1) :
        /\ slices' = [slices EXCEPT !.axial = val]
        /\ displayed' = <<update_display(corrected_image, slices')>>
    /\ UNCHANGED <<ontoVars, parseVars, fileVars, refineVars, hierVars,
                   cfgVars, callVars, regVars, trackVars, alignVars, prepVars,
                   selVars, av_image, corrected_image, av_pc>>

update_sagittal ==
    /\ av_pc = "shown"
    /\ \E val \in 0..(corrected_image.shape[3] - 1) :
        /\ slices' = [slices EXCEPT !.sagittal = val]
        /\ displayed' = <<update_display(corrected_image, slices')>>
    /\ UNCHANGED <<ontoVars, parseVars, fileVars, refineVars, hierVars,
                   cfgVars, callVars, regVars, trackVars, alignVars, prepVars,
                   selVars, av_image, corrected_image, av_pc>>

\* One of the buttons Swap Z-Y, Swap Z-X, Swap Y-X.
swap_axes ==
    /\ av_pc = "shown"
    /\ \E pair \in { <<1, 2>>, <<1, 3>>, <<2, 3>> } :
        LET img == Transpose(corrected_image, SwappedAxes(pair[1], pair[2]))
            after == RecentreSliders(img, slices)
        IN /\ corrected_image' = img
           /\ slices' = after.slices
           /\ displayed' = after.reads
    /\ UNCHANGED <<ontoVars, parseVars, fileVars, refineVars, hierVars,
                   cfgVars, callVars, regVars, trackVars, alignVars, prepVars,
                   selVars, av_image, av_pc>>

\* One of the buttons Flip Z, Flip Y, Flip X.
flip_axis ==
    /\ av_pc = "shown"
    /\ \E axis \in 1..3 :
        /\ corrected_image' = Flip(corrected_image, axis)
        /\ displayed' = <<update_display(corrected_image', slices)>>
    /\ UNCHANGED <<ontoVars, parseVars, fileVars, refineVars, hierVars,
                   cfgVars, callVars, regVars, trackVars, alignVars, prepVars,
                   selVars, av_image, slices, av_pc>>

reset_image ==
    /\ av_pc = "shown"
    /\ LET after == RecentreSliders(av_image, slices)
       IN /\ corrected_image' = av_image
          /\ slices' = after.slices
          /\ displayed' = after.reads
    /\ UNCHANGED <<ontoVars, parseVars, fileVars, refineVars, hierVars,
                   cfgVars, callVars, regVars, trackVars, alignVars, prepVars,
                   selVars, av_image, av_pc>>

\* The Done button: the figure is closed and corrected_image returned.
done ==
    /\ av_pc = "shown"
    /\ av_pc' = "done"
    /\ UNCHANGED <<ontoVars, parseVars, fileVars, refineVars, hierVars,
                   cfgVars, callVars, regVars, trackVars, alignVars, prepVars,
                   selVars, av_image, corrected_image, slices, displayed>>

\* AxisVerifier.__init__ (lines 21-35).
InitAxes ==
    /\ id_to_info = <<>>
    /\ HierIdle
    /\ NoParse
    /\ NoFiberFiles
    /\ NoRefinement
    /\ NoResample
    /\ NoSelector
    /\ NoAligner
    /\ NoTracker
    /\ NoCall
    /\ NoRegistration
    /\ NoSession
    /\ av_image \in { AsLoaded(shape) : shape \in VerifiedShapes }
    /\ corrected_image = av_image
    /\ slices = <<>>
    /\ displayed = <<>>
    /\ av_pc = "idle"

NextAxes ==
    \/ verify_and_correct_axes
    \/ update_coronal \/ update_axial \/ update_sagittal
    \/ swap_axes \/ flip_axis \/ reset_image \/ done

SpecAxes == InitAxes /\ [][NextAxes]_vars

-----------------------------------------------------------------------------
(* C27 *)

\* The three indices of a display update lie inside the image it read.
ReadInRange(r) ==
    /\ 0 <= r.slices.coronal /\ r.slices.coronal < r.shape[1]
    /\ 0 <= r.slices.axial /\ r.slices.axial < r.shape[2]
    /\ 0 <= r.slices.sagittal /\ r.slices.sagittal < r.shape[3]

\* C27: every display update, those of the slider callbacks that fire in the
\* middle of a swap or a reset included, indexes the corrected image inside
\* its shape.
C27_DisplayReadsInRange ==
    \A i \in 1..Len(displayed) : ReadInRange(displayed[i])

-----------------------------------------------------------------------------
(* LandmarkRegistration.refine_registration *)

\* Largest iteration budget of the calls of the model.
MaxIterations == 12

\* The values of the argument iterations.
IterationBudgets == {0, 2, MaxIterations}

\* convergenceWindowSize of SetOptimizerAsGradientDescent.
CONVERGENCE_WINDOW == 10

\* SetShrinkFactorsPerLevel(shrinkFactors=[4, 2, 1])
ShrinkFactorsPerLevel == <<4, 2, 1>>

\* The metric values are those of the images and are not computed: whether
\* the change over the window is below convergenceMinimumValue is open as
\* soon as the window of this level is full. The value of the current
\* iterate is added before the test, so the window holds
\* level_iterations + 1 values.
WindowFull == level_iterations + 1 >= CONVERGENCE_WINDOW

\* refine_registration up to registration.Execute (lines 660-702): the
\* optimizer starts at the first level with the counter of the callback at 0.
refine_registration ==
    /\ refine_pc = "idle"
    /\ refine_pc' = "optimizing"
    /\ level' = 1
    /\ shrink_factors' = <<ShrinkFactorsPerLevel[1]>>
    /\ level_iterations' = 0
    /\ iteration_count' = 0
    /\ UNCHANGED <<ontoVars, parseVars, fileVars, axisVars, hierVars, cfgVars,
                   callVars, regVars, trackVars, alignVars, prepVars, selVars,
                   initial_transform, iterations, stop_condition, refine_ret>>

\* An optimizer that takes a step whatever numberOfIterations is.
AdvanceOneStep_NoIterationLimit ==
    /\ refine_pc = "optimizing"
    /\ level_iterations' = level_iterations + 1
    /\ iteration_count' = iteration_count + 1
    /\ UNCHANGED <<ontoVars, parseVars, fileVars, axisVars, hierVars, cfgVars,
                   callVars, regVars, trackVars, alignVars, prepVars, selVars,
                   initial_transform, iterations, level, stop_condition,
                   shrink_factors, refine_ret, refine_pc>>

\* One iteration of the gradient descent at this level: taken while fewer
\* than numberOfIterations have been done; the iteration event calls
\* iteration_callback (lines 692-697).
AdvanceOneStep ==
    /\ refine_pc = "optimizing"
    /\ level_iterations < iterations
    /\ level_iterations' = level_iterations + 1
    /\ iteration_count' = iteration_count + 1
    /\ UNCHANGED <<ontoVars, parseVars, fileVars, axisVars, hierVars, cfgVars,
                   callVars, regVars, trackVars, alignVars, prepVars, selVars,
                   initial_transform, iterations, level, stop_condition,
                   shrink_factors, refine_ret, refine_pc>>

\* The optimizer stops at this level: the budget is used up, or the window
\* is full and the change over it is below the minimum value. The next
\* level starts from the transform reached, or Execute returns after the
\* last one.
StopLevel ==
    /\ refine_pc = "optimizing"
    /\ \/ /\ level_iterations >= iterations
          /\ stop_condition' = "IterationLimit"
       \/ /\ level_iterations < iterations
          /\ WindowFull
          /\ stop_condition' = "Converged"
    /\ IF level < Len(ShrinkFactorsPerLevel)
       THEN /\ level' = level + 1
            /\ shrink_factors' =
                  Append(shrink_factors, ShrinkFactorsPerLevel[level + 1])
            /\ level_iterations' = 0
            /\ UNCHANGED refine_pc
       ELSE /\ refine_pc' = "executed"
            /\ UNCHANGED <<level, shrink_factors, level_iterations>>
    /\ UNCHANGED <<ontoVars, parseVars, fileVars, axisVars, hierVars, cfgVars,
                   callVars, regVars, trackVars, alignVars, prepVars, selVars,
                   initial_transform, iterations, iteration_count, refine_ret>>

\* Lines 704-721: the metric value and the stop condition are printed, the
\* moving image is resampled on the fixed grid, and the pair
\* (refined_array, refined_transform) is returned. The transform returned
\* has the parameters of the initial transform's kind.
ReturnRefined ==
    /\ refine_pc = "executed"
    /\ refine_ret' = [refined_array |-> "moving on the fixed grid",
                      refined_transform |-> initial_transform]
    /\ refine_pc' = "done"
    /\ UNCHANGED <<ontoVars, parseVars, fileVars, axisVars, hierVars, cfgVars,
                   callVars, regVars, trackVars, alignVars, prepVars, selVars,
                   initial_transform, iterations, level, level_iterations,
                   iteration_count, stop_condition, shrink_factors>>

\* The arguments of a call: the transform of a landmark registration of one
\* of the three kinds, and the iteration budget.
InitRefine ==
    /\ id_to_info = <<>>
    /\ HierIdle
    /\ NoParse
    /\ NoFiberFiles
    /\ NoVerifier
    /\ NoResample
    /\ NoSelector
    /\ NoAligner
    /\ NoTracker
    /\ NoCall
    /\ NoRegistration
    /\ NoSession
    /\ initial_transform \in KnownTypes
    /\ iterations \in IterationBudgets
    /\ level = 0
    /\ level_iterations = 0
    /\ iteration_count = 0
    /\ stop_condition = "none"
    /\ shrink_factors = <<>>
    /\ refine_ret = <<>>
    /\ refine_pc = "idle"

NextRefine == refine_registration \/ AdvanceOneStep \/ StopLevel \/ ReturnRefined

SpecRefine == InitRefine /\ [][NextRefine]_vars

\* The call is synchronous: once made, the optimizer and the code after it
\* run to the end.
SpecRefineFair == SpecRefine /\ WF_vars(NextRefine)

-----------------------------------------------------------------------------
(* C21 *)

-----------------------------------------------------------------------------
(* C22 *)

\* The stop conditions of the specification.
StopConditions == {"Converged", "IterationLimit", "NoImprovement"}

\* C22: refine_registration returns, with the refined transform of the
\* initial transform's kind, the final metric value and a stop condition
\* that is one of Converged, IterationLimit and NoImprovement.
C22_ReturnsMetricAndStopCondition ==
    refine_pc = "done" =>
        /\ "refined_transform" \in DOMAIN refine_ret
        /\ refine_ret.refined_transform = initial_transform
        /\ "metric_value" \in DOMAIN refine_ret
        /\ "stop_condition" \in DOMAIN refine_ret
        /\ refine_ret.stop_condition \in StopConditions

====
